---- MODULE Spec2Model ----
(***************************************************************************)
(* A model of the endpoint-log parser of src/log_markdown_convertor.py.    *)
(*                                                                         *)
(* Text.  A Python str is modelled as a sequence of tokens.  A token is    *)
(* either one character that the code tests for ("{", "}", the double      *)
(* quote, the backslash, "(", ")", ":", " ", "\n") or one whole literal    *)
(* that the code searches for ("Example JSON:", "Description:",            *)
(* "PATH PARAMETERS:", ...), or a piece of free text ("a", "id", ...).     *)
(* Python positions are 0-based and -1 means "not found"; positions here   *)
(* are 1-based and 0 means "not found".                                    *)
(*                                                                         *)
(* Each method of EndpointLogParser is modelled by its own specification:  *)
(* Init draws the arguments of one call from a bounded set and the actions *)
(* run the body of the method.  `job` names the method being run; the      *)
(* variables of the other methods stay at their idle values.               *)
(***************************************************************************)
EXTENDS Integers, Sequences, FiniteSets, TLC

VARIABLES
    job,            \* the method whose call is being modelled
    pc,             \* position inside that method
    \* _extract_complete_json(text, start_marker)
    text, start_marker, json_start, i, brace_count, json_end, in_string,
    escape_next, extracted,
    \* _parse_field_structure(field_text)
    field_text, fields,
    \* _parse_parameters(params_text)
    params_text, parameters,
    \* _parse_responses(responses_text)
    responses_text, responses,
    \* parse_file(file_path): the file's content, the record being built and
    \* group(1) of the section matches (path_params_section, ...)
    content, data, spans,
    \* convert_logs_to_markdown(input_directory, output_directory): the
    \* matched files, the position of the loop, the two counts, the attribute
    \* of the parser instance, the locals endpoint_data and markdown_content,
    \* the files held open, the output directory, and a history of the steps
    \* taken
    txt_files, file_index, processed_count, failed_count,
    parser_endpoint_data, endpoint_data, markdown_content, open_handles,
    output_dir, events,
    \* the texts returned by the calls of generate_single_endpoint_markdown
    rendered,
    \* _parse_request_body: its argument and the list it returns
    body_text, request_bodies,
    \* the two file-name functions: their arguments, the name the summary
    \* links to and the name the generator writes
    http_method, endpoint_path, link_filename, written_filename

vars == <<job, pc, text, start_marker, json_start, i, brace_count, json_end,
          in_string, escape_next, extracted, field_text, fields, params_text,
          parameters, responses_text, responses, content, data, spans,
          txt_files, file_index, processed_count, failed_count,
          parser_endpoint_data, endpoint_data, markdown_content, open_handles,
          output_dir, events, rendered, body_text, request_bodies,
          http_method, endpoint_path, link_filename, written_filename>>

extractVars == <<text, start_marker, json_start, i, brace_count, json_end,
                 in_string, escape_next, extracted>>
fieldVars == <<field_text, fields>>
paramVars == <<params_text, parameters>>
responseVars == <<responses_text, responses>>
fileVars == <<content, data, spans>>
bodyVars == <<body_text, request_bodies>>
nameVars == <<http_method, endpoint_path, link_filename, written_filename>>
batchVars == <<txt_files, file_index, processed_count, failed_count,
               parser_endpoint_data, endpoint_data, markdown_content,
               open_handles, output_dir, events, rendered>>

-----------------------------------------------------------------------------
(* Bounds of the model.                                                    *)

\* longest text body handed to _extract_complete_json after its prefix
MaxBody == 5

\* most lines of a field structure handed to _parse_field_structure
MaxFieldLines == 3

\* most lines of a parameter section handed to _parse_parameters
MaxParamLines == 4

\* most lines of a responses section handed to _parse_responses
MaxResponseLines == 4

\* most items (parameters, content types, status blocks, curl examples) of
\* one section of a document handed to parse_file
MaxItems == 1

\* most files matched by glob('*.txt') in one run
MaxFiles == 4

\* most files of one run on which a step raises
MaxFaults == 1

\* most calls of generate_single_endpoint_markdown on one record
MaxCalls == 2

\* most content types of one REQUEST BODY section
MaxVariants == 2

\* most characters of an endpoint path after its leading slash
MaxPath == 3

-----------------------------------------------------------------------------
(* Python's str and list operations on token sequences.                    *)

NL == "\n"
SP == " "
QUOTE == "\""
BACKSLASH == "\\"
\* two spaces of indentation, one token
IND == "  "
\* what str.strip() removes and \s matches
Whitespace == {SP, NL, IND}

\* all sequences over S of length at most n
SeqsUpTo(S, n) == UNION {[1..k -> S] : k \in 0..n}

Min(S) == CHOOSE x \in S : \A y \in S : x <= y

\* seq[from:] in 1-based positions
Tail_(s, from) == SubSeq(s, from, Len(s))

\* str.find(sub, start): least position >= from at which sub occurs, 0 if none
FindFrom(s, sub, from) ==
    LET hits == {k \in from..(Len(s) - Len(sub) + 1) :
                    SubSeq(s, k, k + Len(sub) - 1) = sub}
    IN IF hits = {} THEN 0 ELSE Min(hits)

\* str.find(sub)
Find(s, sub) == FindFrom(s, sub, 1)

\* sub in s
Contains(s, sub) == Find(s, sub) # 0

\* s.startswith(sub)
StartsWith(s, sub) == Len(s) >= Len(sub) /\ SubSeq(s, 1, Len(sub)) = sub

RECURSIVE LStrip(_)
LStrip(s) == IF s # <<>> /\ Head(s) \in Whitespace THEN LStrip(Tail(s)) ELSE s

RECURSIVE RStrip(_)
RStrip(s) ==
    IF s # <<>> /\ s[Len(s)] \in Whitespace
    THEN RStrip(SubSeq(s, 1, Len(s) - 1)) ELSE s

\* str.strip()
Strip(s) == RStrip(LStrip(s))

\* str.split(sep) for a non-empty separator: always at least one piece
RECURSIVE Split(_, _)
Split(s, sep) ==
    LET k == Find(s, sep)
    IN IF k = 0 THEN <<s>>
       ELSE <<SubSeq(s, 1, k - 1)>> \o Split(Tail_(s, k + Len(sep)), sep)

\* sep.join(parts)
RECURSIVE Join(_, _)
Join(parts, sep) ==
    IF parts = <<>> THEN <<>>
    ELSE IF Len(parts) = 1 THEN parts[1]
    ELSE parts[1] \o sep \o Join(Tail(parts), sep)

\* str.replace(sub, '') for a one-token sub
RECURSIVE Remove(_, _)
Remove(s, tok) ==
    IF s = <<>> THEN <<>>
    ELSE IF Head(s) = tok THEN Remove(Tail(s), tok)
    ELSE <<Head(s)>> \o Remove(Tail(s), tok)

-----------------------------------------------------------------------------
(* EndpointLogParser._extract_complete_json                                *)

ExampleJsonMarker == <<"Example JSON:">>

\* the loop body with the test for the backslash put before the test of
\* escape_next: an escaped backslash escapes again
ScanCharChained(char, k, esc, instr, count, jend) ==
    IF char = BACKSLASH THEN
        [escape_next |-> TRUE, in_string |-> instr, brace_count |-> count,
         json_end |-> jend, stop |-> FALSE]
    ELSE IF esc THEN
        [escape_next |-> FALSE, in_string |-> instr, brace_count |-> count,
         json_end |-> jend, stop |-> FALSE]
    ELSE IF char = QUOTE THEN
        [escape_next |-> FALSE, in_string |-> ~instr, brace_count |-> count,
         json_end |-> jend, stop |-> FALSE]
    ELSE IF ~instr /\ char = "{" THEN
        [escape_next |-> FALSE, in_string |-> instr,
         brace_count |-> count + 1, json_end |-> jend, stop |-> FALSE]
    ELSE IF ~instr /\ char = "}" THEN
        [escape_next |-> FALSE, in_string |-> instr,
         brace_count |-> count - 1,
         json_end |-> IF count - 1 = 0 THEN k ELSE jend,
         stop |-> (count - 1 = 0)]
    ELSE
        [escape_next |-> FALSE, in_string |-> instr, brace_count |-> count,
         json_end |-> jend, stop |-> FALSE]

\* ScanChar without the break of line 304: the loop goes on after the depth
\* is back to zero
ScanCharNoBreak(char, k, esc, instr, count, jend) ==
    IF esc THEN
        [escape_next |-> FALSE, in_string |-> instr, brace_count |-> count,
         json_end |-> jend, stop |-> FALSE]
    ELSE IF char = BACKSLASH THEN
        [escape_next |-> TRUE, in_string |-> instr, brace_count |-> count,
         json_end |-> jend, stop |-> FALSE]
    ELSE IF char = QUOTE THEN
        [escape_next |-> FALSE, in_string |-> ~instr, brace_count |-> count,
         json_end |-> jend, stop |-> FALSE]
    ELSE IF ~instr /\ char = "{" THEN
        [escape_next |-> FALSE, in_string |-> instr,
         brace_count |-> count + 1, json_end |-> jend, stop |-> FALSE]
    ELSE IF ~instr /\ char = "}" THEN
        [escape_next |-> FALSE, in_string |-> instr,
         brace_count |-> count - 1,
         json_end |-> IF count - 1 = 0 THEN k ELSE jend,
         stop |-> FALSE]
    ELSE
        [escape_next |-> FALSE, in_string |-> instr, brace_count |-> count,
         json_end |-> jend, stop |-> FALSE]

\* the loop body for one character `char` at position k: the new values of
\* escape_next, in_string, brace_count, json_end, and whether the loop breaks
ScanChar(char, k, esc, instr, count, jend) ==
    IF esc THEN
        \* if escape_next: escape_next = False; continue
        [escape_next |-> FALSE, in_string |-> instr, brace_count |-> count,
         json_end |-> jend, stop |-> FALSE]
    ELSE IF char = BACKSLASH THEN
        [escape_next |-> TRUE, in_string |-> instr, brace_count |-> count,
         json_end |-> jend, stop |-> FALSE]
    ELSE IF char = QUOTE THEN
        [escape_next |-> FALSE, in_string |-> ~instr, brace_count |-> count,
         json_end |-> jend, stop |-> FALSE]
    ELSE IF ~instr /\ char = "{" THEN
        [escape_next |-> FALSE, in_string |-> instr,
         brace_count |-> count + 1, json_end |-> jend, stop |-> FALSE]
    ELSE IF ~instr /\ char = "}" THEN
        [escape_next |-> FALSE, in_string |-> instr,
         brace_count |-> count - 1,
         json_end |-> IF count - 1 = 0 THEN k ELSE jend,
         stop |-> (count - 1 = 0)]
    ELSE
        [escape_next |-> FALSE, in_string |-> instr, brace_count |-> count,
         json_end |-> jend, stop |-> FALSE]

\* the whole scan from position k, as the loop runs it
RECURSIVE ScanFrom(_, _, _, _, _, _)
ScanFrom(s, k, esc, instr, count, jend) ==
    IF k > Len(s) THEN [brace_count |-> count, json_end |-> jend]
    ELSE LET r == ScanChar(s[k], k, esc, instr, count, jend)
         IN IF r.stop THEN [brace_count |-> r.brace_count, json_end |-> r.json_end]
            ELSE ScanFrom(s, k + 1, r.escape_next, r.in_string,
                          r.brace_count, r.json_end)

\* _extract_complete_json as one function (what its callers see)
ExtractCompleteJson(s, marker) ==
    LET start_index == Find(s, marker)
        start == IF start_index = 0 THEN 0 ELSE FindFrom(s, <<"{">>, start_index)
        r == ScanFrom(s, start, FALSE, FALSE, 0, start)
    IN IF start_index = 0 \/ start = 0 THEN <<>>
       ELSE IF r.brace_count = 0 THEN SubSeq(s, start, r.json_end)
       ELSE <<>>

\* the characters of the texts handed to the extractor
ExtractAlphabet == {"{", "}", QUOTE, BACKSLASH, "[", "]", "a"}

\* what precedes the body: nothing (no marker), the marker, a brace that
\* comes before the marker
ExtractPrefixes == {<<>>, ExampleJsonMarker, <<"{">> \o ExampleJsonMarker}

ExtractTexts ==
    {pre \o body : pre \in ExtractPrefixes,
                   body \in SeqsUpTo(ExtractAlphabet, MaxBody)}

IdleExtract ==
    /\ text = <<>> /\ start_marker = <<>> /\ json_start = 0 /\ i = 0
    /\ brace_count = 0 /\ json_end = 0 /\ in_string = FALSE
    /\ escape_next = FALSE /\ extracted = <<>>
IdleFields == field_text = <<>> /\ fields = <<>>
IdleParams == params_text = <<>> /\ parameters = <<>>
IdleResponses == responses_text = <<>> /\ responses = <<>>
IdleFile == content = <<>> /\ data = <<>> /\ spans = <<>>
IdleBody == body_text = <<>> /\ request_bodies = <<>>
IdleNames ==
    /\ http_method = <<>> /\ endpoint_path = <<>>
    /\ link_filename = <<>> /\ written_filename = <<>>
IdleBatch ==
    /\ txt_files = <<>> /\ file_index = 0 /\ processed_count = 0
    /\ failed_count = 0 /\ parser_endpoint_data = <<>>
    /\ endpoint_data = <<>> /\ markdown_content = <<>>
    /\ open_handles = {} /\ output_dir = <<>> /\ events = <<>>
    /\ rendered = <<>>

InitExtract ==
    /\ job = "_extract_complete_json" /\ pc = "find"
    /\ text \in ExtractTexts /\ start_marker = ExampleJsonMarker
    /\ json_start = 0 /\ i = 0 /\ brace_count = 0 /\ json_end = 0
    /\ in_string = FALSE /\ escape_next = FALSE /\ extracted = <<>>
    /\ IdleFields /\ IdleParams /\ IdleResponses /\ IdleBody /\ IdleNames /\ IdleFile
    /\ IdleBatch

\* lines 269-282: find the marker and the first '{' at or after it
ExtractFind ==
    /\ job = "_extract_complete_json" /\ pc = "find"
    /\ LET start_index == Find(text, start_marker)
           start == IF start_index = 0 THEN 0
                    ELSE FindFrom(text, <<"{">>, start_index)
       IN /\ json_start' = start
          /\ json_end' = start
          /\ i' = start
          /\ pc' = IF start = 0 THEN "done" ELSE "scan"
    /\ UNCHANGED <<job, batchVars, text, start_marker, brace_count, in_string,
                   escape_next, extracted, fieldVars, paramVars,
                   responseVars, bodyVars, nameVars, fileVars>>

\* lines 284-304: one iteration of the for loop
ExtractScan ==
    /\ job = "_extract_complete_json" /\ pc = "scan" /\ i <= Len(text)
    /\ LET r == ScanChar(text[i], i, escape_next, in_string, brace_count,
                         json_end)
       IN /\ escape_next' = r.escape_next
          /\ in_string' = r.in_string
          /\ brace_count' = r.brace_count
          /\ json_end' = r.json_end
          /\ pc' = IF r.stop THEN "after_loop" ELSE "scan"
          /\ i' = IF r.stop THEN i ELSE i + 1
    /\ UNCHANGED <<job, batchVars, text, start_marker, json_start, extracted,
                   fieldVars, paramVars, responseVars, bodyVars, nameVars, fileVars>>

\* the for loop runs out of characters
ExtractExhausted ==
    /\ job = "_extract_complete_json" /\ pc = "scan" /\ i > Len(text)
    /\ pc' = "after_loop"
    /\ UNCHANGED <<job, batchVars, extractVars, fieldVars, paramVars, responseVars, bodyVars, nameVars,
                   fileVars>>

\* lines 306-309
ExtractReturn ==
    /\ job = "_extract_complete_json" /\ pc = "after_loop"
    /\ extracted' = IF brace_count = 0 THEN SubSeq(text, json_start, json_end)
                    ELSE <<>>
    /\ pc' = "done"
    /\ UNCHANGED <<job, batchVars, text, start_marker, json_start, i, brace_count,
                   json_end, in_string, escape_next, fieldVars, paramVars,
                   responseVars, bodyVars, nameVars, fileVars>>

NextExtract == ExtractFind \/ ExtractScan \/ ExtractExhausted \/ ExtractReturn

SpecExtract == InitExtract /\ [][NextExtract]_vars

-----------------------------------------------------------------------------
(* EndpointLogParser._parse_field_structure                                *)

\* Python's None, as a value that can be compared with a dict
None == [none |-> TRUE]

\* line.startswith('  ')
StartsWithIndent(line) == StartsWith(line, <<IND>>)

\* re.match(r'([^(]+)', field_info): the characters before the first '(',
\* no match when there is none
TypeMatch(info) ==
    LET k == Find(info, <<"(">>)
    IN IF k = 0 THEN info ELSE SubSeq(info, 1, k - 1)

\* re.search(r'\(format: ([^)]+)\)', field_info): group 1 of the first
\* match, <<>> when nothing matches ([^)]+ needs one character at least)
FormatMatch(info) ==
    LET opener == <<"(", "format", ":", SP>>
        ok(k) == /\ k + 3 <= Len(info)
                 /\ SubSeq(info, k, k + 3) = opener
                 /\ FindFrom(info, <<")">>, k + 4) > k + 4
        hits == {k \in 1..Len(info) : ok(k)}
    IN IF hits = {} THEN <<>>
       ELSE LET k == Min(hits)
            IN SubSeq(info, k + 4, FindFrom(info, <<")">>, k + 4) - 1)

\* ParseFieldLine with required read from the absence of (optional)
ParseFieldLineUnlessOptional(line) ==
    LET k == Find(line, <<":">>)
        field_name == Strip(SubSeq(line, 1, k - 1))
        field_info == Strip(Tail_(line, k + 1))
    IN [name |-> field_name,
        type |-> IF field_info = <<>> THEN <<>> ELSE Strip(TypeMatch(field_info)),
        format |-> IF field_info = <<>> THEN <<>> ELSE Strip(FormatMatch(field_info)),
        required |-> ~Contains(field_info, <<"(", "optional", ")">>),
        description |-> <<>>]

\* lines 224-252: the Field of a definition line
ParseFieldLine(line) ==
    LET k == Find(line, <<":">>)
        field_name == Strip(SubSeq(line, 1, k - 1))
        field_info == Strip(Tail_(line, k + 1))
    IN [name |-> field_name,
        type |-> IF field_info = <<>> THEN <<>> ELSE Strip(TypeMatch(field_info)),
        format |-> IF field_info = <<>> THEN <<>> ELSE Strip(FormatMatch(field_info)),
        required |-> Contains(field_info, <<"(", "required", ")">>),
        description |-> <<>>]

\* lines 212-259: the loop over lines[k..], with the list built so far and
\* current_field; lines 261-263 at the end of the lines
RECURSIVE FieldLoop(_, _, _, _)
FieldLoop(lines, k, acc, current_field) ==
    IF k > Len(lines) THEN
        IF current_field # None THEN Append(acc, current_field) ELSE acc
    ELSE LET line == Strip(lines[k]) IN
        IF line = <<>> THEN FieldLoop(lines, k + 1, acc, current_field)
        ELSE IF ~StartsWithIndent(line) /\ Contains(line, <<":">>) THEN
            FieldLoop(lines, k + 1,
                      IF current_field # None THEN Append(acc, current_field)
                      ELSE acc,
                      ParseFieldLine(line))
        ELSE IF StartsWithIndent(line) /\ current_field # None THEN
            FieldLoop(lines, k + 1, acc,
                      [current_field EXCEPT !.description =
                          IF @ = <<>> THEN Strip(line)
                          ELSE @ \o <<SP>> \o Strip(line)])
        ELSE FieldLoop(lines, k + 1, acc, current_field)

ParseFieldStructure(ftext) == FieldLoop(Split(Strip(ftext), <<NL>>), 1, <<>>, None)

\* the lines a field structure is made of (generator.py, get_schema_structure)
FieldLineMenu ==
    {<<"a", ":", SP, "string", SP, "(", "required", ")">>,
     <<"b", ":", SP, "object", SP, "(", "optional", ")">>,
     <<"c", ":", SP, "string", SP, "(", "format", ":", SP, "uuid", ")", SP,
       "(", "required", ")">>,
     <<"d", ":", SP, "integer">>,
     <<"e", ":", SP, "string", SP, "(", "enum", ":", SP, "x", ")", SP,
       "(", "optional", ")">>,
     <<"array of objects", ":">>,
     <<"nested", SP, "text">>}

FieldLines ==
    FieldLineMenu \cup {<<IND>> \o l : l \in FieldLineMenu} \cup {<<>>}

FieldTexts == {Join(ls, <<NL>>) : ls \in SeqsUpTo(FieldLines, MaxFieldLines)}

InitFields ==
    /\ job = "_parse_field_structure" /\ pc = "call"
    /\ field_text \in FieldTexts /\ fields = <<>>
    /\ IdleExtract /\ IdleParams /\ IdleResponses /\ IdleBody /\ IdleNames /\ IdleFile
    /\ IdleBatch

ParseFields ==
    /\ job = "_parse_field_structure" /\ pc = "call"
    /\ fields' = ParseFieldStructure(field_text)
    /\ pc' = "done"
    /\ UNCHANGED <<job, batchVars, field_text, extractVars, paramVars, responseVars, bodyVars, nameVars,
                   fileVars>>

NextFields == ParseFields

SpecFields == InitFields /\ [][NextFields]_vars

\* the lines of the source text, and those that define a field: no leading
\* indentation, a colon
SourceFieldLines == Split(field_text, <<NL>>)
IsDefinitionLine(line) ==
    line # <<>> /\ Head(line) \notin Whitespace /\ Contains(line, <<":">>)
DefinitionLines ==
    {k \in 1..Len(SourceFieldLines) : IsDefinitionLine(SourceFieldLines[k])}

\* the indented lines that follow definition line k up to the next one
RECURSIVE ContinuationText(_, _)
ContinuationText(k, acc) ==
    IF k > Len(SourceFieldLines) \/ k \in DefinitionLines THEN acc
    ELSE LET line == Strip(SourceFieldLines[k])
         IN ContinuationText(k + 1,
                IF line = <<>> \/ Head(SourceFieldLines[k]) # IND THEN acc
                ELSE IF acc = <<>> THEN line ELSE acc \o <<SP>> \o line)

\* C4: for a field structure that starts with a definition line, there is
\* one Field per non-indented colon line; the indented lines after it start
\* no Field and make up the description of that Field.
C4_FieldNesting ==
    (/\ job = "_parse_field_structure" /\ pc = "done"
     /\ IsDefinitionLine(SourceFieldLines[1])) =>
        /\ Len(fields) = Cardinality(DefinitionLines)
        /\ \A n \in 1..Len(fields) :
             \A k \in DefinitionLines :
                Cardinality({j \in DefinitionLines : j <= k}) = n =>
                    fields[n].description = ContinuationText(k + 1, <<>>)

-----------------------------------------------------------------------------
(* EndpointLogParser._parse_parameters                                     *)

\* the bullet glyph U+2022 that introduces a parameter
BULLET == "*bullet*"

\* re.split(r'<bullet>\s+', params_text): the pieces between the separators, a
\* separator being a bullet and all the whitespace that follows it (one
\* character of it at least)
RECURSIVE BulletSplit(_)
BulletSplit(s) ==
    LET seps == {k \in 1..(Len(s) - 1) :
                    s[k] = BULLET /\ s[k + 1] \in Whitespace}
    IN IF seps = {} THEN <<s>>
       ELSE LET k == Min(seps)
            IN <<SubSeq(s, 1, k - 1)>>
               \o BulletSplit(LStrip(Tail_(s, k + 1)))

\* str.upper() on the words the model uses
UpperToken(t) ==
    CASE t = "required" -> "REQUIRED"
      [] t = "optional" -> "OPTIONAL"
      [] t = "id" -> "ID"
      [] OTHER -> t
Upper(s) == [k \in 1..Len(s) |-> UpperToken(s[k])]

\* param[key] = value
SetKey(param, key, value) ==
    [k \in DOMAIN param \cup {key} |-> IF k = key THEN value ELSE param[k]]

\* lines 106-114 with the whole first line kept as the name
ParamHeadWholeLine(first_line) ==
    IF Contains(first_line, <<"(">>) THEN
        LET required_part ==
                Strip(Split(Split(first_line, <<"(">>)[2], <<")">>)[1])
        IN [name |-> first_line,
            required |-> (Upper(required_part) = <<"REQUIRED">>)]
    ELSE [name |-> first_line, required |-> FALSE]

\* lines 106-114: name and required from the first line of a block
ParamHead(first_line) ==
    IF Contains(first_line, <<"(">>) THEN
        LET name_part == Strip(Split(first_line, <<"(">>)[1])
            required_part ==
                Strip(Split(Split(first_line, <<"(">>)[2], <<")">>)[1])
        IN [name |-> name_part,
            required |-> (Upper(required_part) = <<"REQUIRED">>)]
    ELSE [name |-> first_line, required |-> FALSE]

\* the field a label line opens, None for a line that is no label line
LabelOf(line_stripped) ==
    IF StartsWith(line_stripped, <<"Description:">>) THEN "description"
    ELSE IF StartsWith(line_stripped, <<"Type:">>) THEN "type"
    ELSE IF StartsWith(line_stripped, <<"Example:">>) THEN "example"
    ELSE "None"

LabelToken(field) ==
    CASE field = "description" -> "Description:"
      [] field = "type" -> "Type:"
      [] field = "example" -> "Example:"

\* lines 125, 130, 135, 144: param[current_field] = '\n'.join(...).strip()
Flush(param, current_field, current_content) ==
    IF current_field # "None"
    THEN SetKey(param, current_field, Strip(Join(current_content, <<NL>>)))
    ELSE param

\* lines 120-144: the loop over lines[k..] of one block
RECURSIVE ParamLoop(_, _, _, _, _)
ParamLoop(lines, k, param, current_field, current_content) ==
    IF k > Len(lines) THEN Flush(param, current_field, current_content)
    ELSE LET line_stripped == Strip(lines[k])
             label == LabelOf(line_stripped)
         IN IF label # "None" THEN
                ParamLoop(lines, k + 1,
                          Flush(param, current_field, current_content),
                          label,
                          <<Strip(Remove(line_stripped, LabelToken(label)))>>)
            ELSE IF current_field # "None" /\ line_stripped # <<>> THEN
                ParamLoop(lines, k + 1, param, current_field,
                          Append(current_content, line_stripped))
            ELSE ParamLoop(lines, k + 1, param, current_field,
                           current_content)

\* lines 102-146: the Parameter of one block
ParseParamBlock(block) ==
    LET lines == Split(Strip(block), <<NL>>)
    IN ParamLoop(lines, 2, ParamHead(Strip(lines[1])), "None", <<>>)

\* lines 98-100, 146: the loop over the blocks
RECURSIVE ParamBlocks(_, _)
ParamBlocks(blocks, k) ==
    IF k > Len(blocks) THEN <<>>
    ELSE IF Strip(blocks[k]) = <<>> THEN ParamBlocks(blocks, k + 1)
    ELSE <<ParseParamBlock(blocks[k])>> \o ParamBlocks(blocks, k + 1)

ParseParameters(ptext) == ParamBlocks(BulletSplit(ptext), 1)

\* the lines a parameter section is made of (generator.py lines 520-525)
ParamLineMenu ==
    {<<BULLET, SP, "id", SP, "(", "REQUIRED", ")">>,
     <<BULLET, SP, "id", SP, "(", "optional", ")">>,
     <<BULLET, SP, "q">>,
     <<IND, "Description:", SP, "Unique identifier">>,
     <<IND, "Description:", SP, "see", SP, "Description:", SP, "below">>,
     <<IND, "Type:", SP, "string">>,
     <<IND, "Example:", SP, "123">>,
     <<IND, IND, "more", SP, "text">>,
     <<"stray">>,
     <<>>}

ParamTexts == {Join(ls, <<NL>>) : ls \in SeqsUpTo(ParamLineMenu, MaxParamLines)}

InitParams ==
    /\ job = "_parse_parameters" /\ pc = "call"
    /\ params_text \in ParamTexts /\ parameters = <<>>
    /\ IdleExtract /\ IdleFields /\ IdleResponses /\ IdleBody /\ IdleNames /\ IdleFile
    /\ IdleBatch

ParseParams ==
    /\ job = "_parse_parameters" /\ pc = "call"
    /\ parameters' = ParseParameters(params_text)
    /\ pc' = "done"
    /\ UNCHANGED <<job, batchVars, params_text, extractVars, fieldVars, responseVars, bodyVars, nameVars,
                   fileVars>>

NextParams == ParseParams

SpecParams == InitParams /\ [][NextParams]_vars

-----------------------------------------------------------------------------
(* EndpointLogParser._parse_responses                                      *)

ExampleResponseMarker == <<"Example Response:">>

\* the tokens \d+ matches
StatusCodes == {"200", "404"}

\* the tokens that start with a capital letter ([A-Z])
CapitalTokens ==
    {"Status", "Note", "Content-Type:", "Response Structure:",
     "Example Response:", "No response body", "Description:", "Required:",
     "Field Structure:", "Example JSON:", "OK", "Not found",
     "PATH PARAMETERS:", "QUERY PARAMETERS:", "REQUEST BODY:", "RESPONSES:",
     "BASIC CURL COMMAND:", "ADVANCED USAGE EXAMPLES:", "ENDPOINT:",
     "Summary:", "Tags:", "Type:", "Example:", "REQUIRED", "Yes",
     "With verbose", "GET", "PUT", "DELETED"}

\* re.search(label + r' (.+)', s): the label, a space and the rest of the
\* line, which holds one character at least; k = 0 when nothing matches
LabelSearch(s, label) ==
    LET hits == {k \in 1..(Len(s) - 2) :
                    s[k] = label /\ s[k + 1] = SP /\ s[k + 2] # NL}
    IN IF hits = {} THEN [k |-> 0, group |-> <<>>]
       ELSE LET k == Min(hits)
                eol == FindFrom(s, <<NL>>, k + 2)
            IN [k |-> k,
                group |-> SubSeq(s, k + 2,
                                 IF eol = 0 THEN Len(s) ELSE eol - 1)]

\* re.split(r'Status (\d+):', s): text, code, text, code, ..., text
RECURSIVE StatusSplit(_)
StatusSplit(s) ==
    LET seps == {k \in 1..(Len(s) - 3) :
                    /\ s[k] = "Status" /\ s[k + 1] = SP
                    /\ s[k + 2] \in StatusCodes /\ s[k + 3] = ":"}
    IN IF seps = {} THEN <<s>>
       ELSE LET k == Min(seps)
            IN <<SubSeq(s, 1, k - 1), s[k + 2]>>
               \o StatusSplit(Tail_(s, k + 4))

\* re.search(r'\n\n[A-Z]', s): the start of the first match, 0 when none
NextSectionSearch(s) ==
    LET hits == {k \in 1..(Len(s) - 2) :
                    s[k] = NL /\ s[k + 1] = NL /\ s[k + 2] \in CapitalTokens}
    IN IF hits = {} THEN 0 ELSE Min(hits)

\* lines 341-353: the example of a status block
ResponseExample(block) ==
    IF ~Contains(block, ExampleResponseMarker) THEN <<>>
    ELSE LET json_example == ExtractCompleteJson(block, ExampleResponseMarker)
         IN IF json_example # <<>> THEN json_example
            ELSE LET example_section ==
                         Strip(Split(block, ExampleResponseMarker)[2])
                     next_section == NextSectionSearch(example_section)
                 IN IF next_section # 0
                    THEN Strip(SubSeq(example_section, 1, next_section - 1))
                    ELSE Strip(example_section)

\* lines 356-360: the schema of a status block ({} when there is none, which
\* is modelled by the empty text)
ResponseSchema(block) ==
    IF ~Contains(block, <<"Response Structure:">>) THEN <<>>
    ELSE LET structure_section == Split(block, <<"Response Structure:">>)[2]
         IN Strip(IF Contains(structure_section, ExampleResponseMarker)
                  THEN Split(structure_section, ExampleResponseMarker)[1]
                  ELSE structure_section)

\* lines 323-360 without the else of line 335: the content is parsed also
\* when the block says 'No response body'
ParseStatusBlockNoElse(status_code, block) ==
    [status |-> status_code,
     description |-> IF Contains(block, <<"No response body">>)
                     THEN <<"No response body">> ELSE <<>>,
     content_type |-> Strip(LabelSearch(block, "Content-Type:").group),
     schema |-> ResponseSchema(block),
     example |-> ResponseExample(block)]

\* ParseStatusBlock with the text of the marker line kept as description
ParseStatusBlockMarkerText(status_code, block) ==
    IF Contains(block, <<"No response body">>) THEN
        [status |-> status_code, description |-> <<"No response body">>,
         content_type |-> <<>>, schema |-> <<>>, example |-> <<>>]
    ELSE
        [status |-> status_code,
         description |-> Strip(Split(block, <<NL>>)[1]),
         content_type |-> Strip(LabelSearch(block, "Content-Type:").group),
         schema |-> ResponseSchema(block),
         example |-> ResponseExample(block)]

\* lines 323-360: the ResponseEntry of one status block
ParseStatusBlock(status_code, block) ==
    IF Contains(block, <<"No response body">>) THEN
        [status |-> status_code, description |-> <<"No response body">>,
         content_type |-> <<>>, schema |-> <<>>, example |-> <<>>]
    ELSE
        [status |-> status_code, description |-> <<>>,
         content_type |-> Strip(LabelSearch(block, "Content-Type:").group),
         schema |-> ResponseSchema(block),
         example |-> ResponseExample(block)]

\* StatusLoop with a block that runs on into the text of the next block
RECURSIVE StatusLoopRunOn(_, _)
StatusLoopRunOn(status_blocks, k) ==
    IF k > Len(status_blocks) THEN <<>>
    ELSE IF k + 1 <= Len(status_blocks) THEN
        <<ParseStatusBlock(status_blocks[k],
                           status_blocks[k + 1]
                           \o (IF k + 3 <= Len(status_blocks)
                               THEN status_blocks[k + 3] ELSE <<>>))>>
        \o StatusLoopRunOn(status_blocks, k + 2)
    ELSE StatusLoopRunOn(status_blocks, k + 2)

\* lines 318-362: for i in range(1, len(status_blocks), 2)
RECURSIVE StatusLoop(_, _)
StatusLoop(status_blocks, k) ==
    IF k > Len(status_blocks) THEN <<>>
    ELSE IF k + 1 <= Len(status_blocks) THEN
        <<ParseStatusBlock(status_blocks[k], status_blocks[k + 1])>>
        \o StatusLoop(status_blocks, k + 2)
    ELSE StatusLoop(status_blocks, k + 2)

ParseResponses(rtext) == StatusLoop(StatusSplit(rtext), 2)

\* the lines a responses section is made of (generator.py lines 582-602)
ResponseLineMenu ==
    {<<"Status", SP, "200", ":", SP, "OK">>,
     <<"Status", SP, "404", ":", SP, "Not found">>,
     <<IND, "No response body">>,
     <<IND, "Content-Type:", SP, "application/json">>,
     <<IND, "Response Structure:">>,
     <<IND, "id", ":", SP, "integer">>,
     <<IND, "Example Response:">>,
     <<IND, "{", QUOTE, "id", QUOTE, ":", SP, "1", "}">>,
     <<IND, "{", "cut">>,
     <<IND, "Content-Type:", SP, "text/plain", NL,
       IND, "Response Structure:", NL, IND, "name", ":", SP, "string">>,
     <<"Note">>,
     <<>>}

ResponseTexts ==
    {Join(ls, <<NL>>) : ls \in SeqsUpTo(ResponseLineMenu, MaxResponseLines)}

InitResponses ==
    /\ job = "_parse_responses" /\ pc = "call"
    /\ responses_text \in ResponseTexts /\ responses = <<>>
    /\ IdleExtract /\ IdleFields /\ IdleParams /\ IdleFile
    /\ IdleBatch /\ IdleBody /\ IdleNames

ParseResponsesCall ==
    /\ job = "_parse_responses" /\ pc = "call"
    /\ responses' = ParseResponses(responses_text)
    /\ pc' = "done"
    /\ UNCHANGED <<job, batchVars, responses_text, extractVars, fieldVars, paramVars,
                   fileVars, bodyVars, nameVars>>

NextResponses == ParseResponsesCall

SpecResponses == InitResponses /\ [][NextResponses]_vars

-----------------------------------------------------------------------------
(* EndpointLogParser._parse_request_body and _parse_advanced_curl          *)

\* str.lower() on the words the model uses
LowerToken(t) ==
    CASE t = "Yes" -> "yes"
      [] t = "No" -> "no"
      [] OTHER -> t
Lower(s) == [k \in 1..Len(s) |-> LowerToken(s[k])]

\* re.split(r'Content-Type: (.+)', s): text, value, text, value, ..., text
RECURSIVE ContentTypeSplit(_)
ContentTypeSplit(s) ==
    LET m == LabelSearch(s, "Content-Type:")
    IN IF m.k = 0 THEN <<s>>
       ELSE <<SubSeq(s, 1, m.k - 1), m.group>>
            \o ContentTypeSplit(Tail_(s, m.k + 2 + Len(m.group)))

\* lines 187-199: the example of one content-type section
RequestExample(section_content) ==
    IF ~Contains(section_content, ExampleJsonMarker) THEN <<>>
    ELSE LET json_example ==
                 ExtractCompleteJson(section_content, ExampleJsonMarker)
         IN IF json_example # <<>> THEN json_example
            ELSE LET example_section ==
                         Strip(Split(section_content, ExampleJsonMarker)[2])
                     next_content_type ==
                         Find(example_section, <<NL, "Content-Type:">>)
                 IN IF next_content_type # 0
                    THEN Strip(SubSeq(example_section, 1,
                                      next_content_type - 1))
                    ELSE Strip(example_section)

\* lines 179-184: the fields of one content-type section
RequestFields(section_content) ==
    IF ~Contains(section_content, <<"Field Structure:">>) THEN <<>>
    ELSE LET field_section ==
                 Split(section_content, <<"Field Structure:">>)[2]
         IN ParseFieldStructure(
                IF Contains(field_section, ExampleJsonMarker)
                THEN Split(field_section, ExampleJsonMarker)[1]
                ELSE field_section)

\* lines 165-201: for i in range(1, len(content_type_sections), 2)
RECURSIVE ContentTypeLoop(_, _, _, _)
ContentTypeLoop(sections, k, base_description, is_required) ==
    IF k > Len(sections) THEN <<>>
    ELSE IF k + 1 <= Len(sections) THEN
        <<[description |-> base_description,
           required |-> is_required,
           content_type |-> Strip(sections[k]),
           fields |-> RequestFields(sections[k + 1]),
           example |-> RequestExample(sections[k + 1])]>>
        \o ContentTypeLoop(sections, k + 2, base_description, is_required)
    ELSE ContentTypeLoop(sections, k + 2, base_description, is_required)

\* ParseRequestBody with the Required: value compared as written, without
\* lower()
ParseRequestBodyCaseSensitive(request_body_text) ==
    LET description_match == LabelSearch(request_body_text, "Description:")
        required_match == LabelSearch(request_body_text, "Required:")
        base_description ==
            IF description_match.k # 0 THEN Strip(description_match.group)
            ELSE <<>>
        is_required ==
            IF required_match.k # 0
            THEN Strip(required_match.group) = <<"yes">>
            ELSE FALSE
    IN ContentTypeLoop(ContentTypeSplit(request_body_text), 2,
                       base_description, is_required)

ParseRequestBody(request_body_text) ==
    LET description_match == LabelSearch(request_body_text, "Description:")
        required_match == LabelSearch(request_body_text, "Required:")
        base_description ==
            IF description_match.k # 0 THEN Strip(description_match.group)
            ELSE <<>>
        is_required ==
            IF required_match.k # 0
            THEN Lower(Strip(required_match.group)) = <<"yes">>
            ELSE FALSE
    IN ContentTypeLoop(ContentTypeSplit(request_body_text), 2,
                       base_description, is_required)

\* the first match of r'# (.+):' in s: '#', a space, one character at least
\* and the last colon of the line; k = 0 when nothing matches
TitleSearch(s) ==
    LET eol(k) == LET e == FindFrom(s, <<NL>>, k) IN
                  IF e = 0 THEN Len(s) + 1 ELSE e
        colons(k) == {c \in (k + 3)..(eol(k) - 1) : s[c] = ":"}
        hits == {k \in 1..(Len(s) - 3) :
                    s[k] = "#" /\ s[k + 1] = SP /\ colons(k) # {}}
    IN IF hits = {} THEN [k |-> 0, colon |-> 0]
       ELSE LET k == Min(hits)
            IN [k |-> k,
                colon |-> CHOOSE c \in colons(k) : \A d \in colons(k) : d <= c]

\* re.split(r'# (.+):', s): text, title, text, title, ..., text
RECURSIVE TitleSplit(_)
TitleSplit(s) ==
    LET m == TitleSearch(s)
    IN IF m.k = 0 THEN <<s>>
       ELSE <<SubSeq(s, 1, m.k - 1), SubSeq(s, m.k + 2, m.colon - 1)>>
            \o TitleSplit(Tail_(s, m.colon + 1))

\* lines 373-381: for i in range(1, len(sections), 2)
RECURSIVE CurlLoop(_, _)
CurlLoop(sections, k) ==
    IF k > Len(sections) THEN <<>>
    ELSE IF k + 1 <= Len(sections) THEN
        <<[title |-> Strip(sections[k]), command |-> Strip(sections[k + 1])]>>
        \o CurlLoop(sections, k + 2)
    ELSE CurlLoop(sections, k + 2)

ParseAdvancedCurl(curl_text) == CurlLoop(TitleSplit(curl_text), 2)

-----------------------------------------------------------------------------
(* EndpointLogParser.parse_file                                            *)

PathTitle == "PATH PARAMETERS:"
QueryTitle == "QUERY PARAMETERS:"
BodyTitle == "REQUEST BODY:"
ResponsesTitle == "RESPONSES:"
BasicTitle == "BASIC CURL COMMAND:"
AdvancedTitle == "ADVANCED USAGE EXAMPLES:"
\* -{40}: the underline of a section title, one token
DASH40 == "----------------------------------------"

\* the tokens \w+ matches
WordTokens == {"GET", "PUT", "DELETED", "sum", "tag"}

\* the first position >= k that holds no whitespace, Len(s) + 1 if none
SkipWhitespace(s, k) ==
    LET rest == {j \in k..Len(s) : s[j] \notin Whitespace}
    IN IF rest = {} THEN Len(s) + 1 ELSE Min(rest)

\* where a lazy group that may start at `from` ends: before the first of the
\* `stops`, at the end of the text, or before the newline that ends the text
\* (what (?=A|B|$) accepts); the position after the group
LazyEnd(s, from, stops) ==
    Min({p \in from..(Len(s) + 1) :
            \/ p = Len(s) + 1
            \/ s[p] \in stops
            \/ (p = Len(s) /\ s[p] = NL)})

\* re.search(title + r'\s*-{40}\s*(.*?)(?=stop1|stop2|...|$)', s, DOTALL)
SectionSearch(s, title, stops) ==
    LET hits == {k \in 1..Len(s) :
                    /\ s[k] = title
                    /\ SkipWhitespace(s, k + 1) <= Len(s)
                    /\ s[SkipWhitespace(s, k + 1)] = DASH40}
    IN IF hits = {} THEN [k |-> 0, group |-> <<>>]
       ELSE LET k == Min(hits)
                start == SkipWhitespace(s, SkipWhitespace(s, k + 1) + 1)
            IN [k |-> k,
                group |-> SubSeq(s, start, LazyEnd(s, start, stops) - 1)]

PathStops == {QueryTitle, ResponsesTitle, BasicTitle}
QueryStops == {BodyTitle, ResponsesTitle, BasicTitle}
BodyStops == {ResponsesTitle, BasicTitle}
\* the lookahead of line 74 with the anchor of line 79 in its place
ResponsesStopsAdvanced == {AdvancedTitle}

ResponsesStops == {BasicTitle}
BasicStops == {AdvancedTitle}

\* re.search(r'ADVANCED USAGE EXAMPLES:\s*-{40}\s*(.*)', s, DOTALL)
AdvancedSearch(s) ==
    LET m == SectionSearch(s, AdvancedTitle, {})
    IN IF m.k = 0 THEN m
       ELSE [k |-> m.k,
             group |-> Tail_(s, SkipWhitespace(s,
                                   SkipWhitespace(s, m.k + 1) + 1))]

\* the length of the run of word tokens that starts at k
RECURSIVE WordRun(_, _)
WordRun(s, k) ==
    IF k <= Len(s) /\ s[k] \in WordTokens THEN 1 + WordRun(s, k + 1) ELSE 0

\* the search with (\S+) for the path: group 2 ends at the first whitespace
EndpointSearchFirstToken(s) ==
    LET ok(k) == LET n == WordRun(s, k + 2) IN
                 /\ s[k] = "ENDPOINT:" /\ s[k + 1] = SP
                 /\ n >= 1
                 /\ k + 3 + n <= Len(s)
                 /\ s[k + 2 + n] = SP
                 /\ s[k + 3 + n] \notin Whitespace
        hits == {k \in 1..(Len(s) - 1) : ok(k)}
    IN IF hits = {} THEN [k |-> 0, group1 |-> <<>>, group2 |-> <<>>]
       ELSE LET k == Min(hits)
                n == WordRun(s, k + 2)
            IN [k |-> k,
                group1 |-> SubSeq(s, k + 2, k + 1 + n),
                group2 |-> SubSeq(s, k + 3 + n,
                                  Min({p \in (k + 3 + n)..(Len(s) + 1) :
                                          \/ p = Len(s) + 1
                                          \/ s[p] \in Whitespace}) - 1)]

\* re.search(r'ENDPOINT: (\w+) (.+)', s): groups 1 and 2 of the first match
EndpointSearch(s) ==
    LET ok(k) == LET n == WordRun(s, k + 2) IN
                 /\ s[k] = "ENDPOINT:" /\ s[k + 1] = SP
                 /\ n >= 1
                 /\ k + 3 + n <= Len(s)
                 /\ s[k + 2 + n] = SP
                 /\ s[k + 3 + n] # NL
        hits == {k \in 1..(Len(s) - 1) : ok(k)}
    IN IF hits = {} THEN [k |-> 0, group1 |-> <<>>, group2 |-> <<>>]
       ELSE LET k == Min(hits)
                n == WordRun(s, k + 2)
                eol == FindFrom(s, <<NL>>, k + 3 + n)
            IN [k |-> k,
                group1 |-> SubSeq(s, k + 2, k + 1 + n),
                group2 |-> SubSeq(s, k + 3 + n,
                                  IF eol = 0 THEN Len(s) ELSE eol - 1)]

DescriptionStops == {"Tags:", PathTitle, QueryTitle, ResponsesTitle}

\* re.search(r'Description: (.+?)(?=Tags:|PATH PARAMETERS:|QUERY PARAMETERS:
\* |RESPONSES:|$)', s, DOTALL): the lazy group holds one character at least
DescriptionSearch(s) ==
    LET hits == {k \in 1..(Len(s) - 2) :
                    s[k] = "Description:" /\ s[k + 1] = SP}
    IN IF hits = {} THEN [k |-> 0, group |-> <<>>]
       ELSE LET k == Min(hits)
            IN [k |-> k,
                group |-> SubSeq(s, k + 2,
                                 LazyEnd(s, k + 3, DescriptionStops) - 1)]

\* lines 21-34
InitialData ==
    [filename |-> <<"endpoint.txt">>, endpoint |-> <<>>, method |-> <<>>,
     path |-> <<>>, summary |-> <<>>, description |-> <<>>, tags |-> <<>>,
     path_parameters |-> <<>>, query_parameters |-> <<>>,
     request_body |-> <<>>, responses |-> <<>>, curl_examples |-> <<>>]

\* an indexing seq[idx] that runs when `guard` holds raises IndexError
\* when idx is no position of seq
IndexRaises(guard, seq, idx) == guard /\ idx \notin 1..Len(seq)

\* the same indexings without the test `'(' in first_line` of line 107
ParamHeadRaisesUnguarded(first_line) ==
    LET parts == Split(first_line, <<"(">>)
    IN \/ IndexRaises(TRUE, parts, 2)
       \/ IndexRaises(TRUE, Split(parts[2], <<")">>), 1)

\* lines 107-109: first_line.split('(')[1].split(')')[0] under its guard
ParamHeadRaises(first_line) ==
    LET parts == Split(first_line, <<"(">>)
    IN \/ IndexRaises(Contains(first_line, <<"(">>), parts, 2)
       \/ (Contains(first_line, <<"(">>)
           /\ IndexRaises(TRUE, Split(parts[2], <<")">>), 1))

\* lines 103-109: the indexings of one block
ParamBlockRaises(block) ==
    LET lines == Split(Strip(block), <<NL>>)
    IN IndexRaises(TRUE, lines, 1) \/ ParamHeadRaises(Strip(lines[1]))

ParseParametersRaises(ptext) ==
    LET blocks == BulletSplit(ptext)
    IN \E k \in 1..Len(blocks) :
          Strip(blocks[k]) # <<>> /\ ParamBlockRaises(blocks[k])

\* the loops `for i in range(1, len(x), 2): if i + 1 < len(x): ... x[i + 1]`
PairLoopRaises(sections) ==
    \E k \in 2..Len(sections) :
        k % 2 = 0 /\ IndexRaises(k + 1 <= Len(sections), sections, k + 1)

\* lines 179-193: the indexings of one content-type section
RequestSectionRaises(section_content) ==
    \/ IndexRaises(Contains(section_content, <<"Field Structure:">>),
                   Split(section_content, <<"Field Structure:">>), 2)
    \/ IndexRaises(/\ Contains(section_content, ExampleJsonMarker)
                   /\ ExtractCompleteJson(section_content,
                                          ExampleJsonMarker) = <<>>,
                   Split(section_content, ExampleJsonMarker), 2)

ParseRequestBodyRaises(request_body_text) ==
    LET sections == ContentTypeSplit(request_body_text)
    IN \/ PairLoopRaises(sections)
       \/ \E k \in 2..Len(sections) :
             k % 2 = 0 /\ k + 1 <= Len(sections)
             /\ RequestSectionRaises(sections[k + 1])

\* lines 341-359: the indexings of one status block
StatusBlockRaises(block) ==
    /\ ~Contains(block, <<"No response body">>)
    /\ \/ IndexRaises(/\ Contains(block, ExampleResponseMarker)
                      /\ ExtractCompleteJson(block,
                                             ExampleResponseMarker) = <<>>,
                      Split(block, ExampleResponseMarker), 2)
       \/ IndexRaises(Contains(block, <<"Response Structure:">>),
                      Split(block, <<"Response Structure:">>), 2)

ParseResponsesRaises(rtext) ==
    LET status_blocks == StatusSplit(rtext)
    IN \/ PairLoopRaises(status_blocks)
       \/ \E k \in 2..Len(status_blocks) :
             k % 2 = 0 /\ k + 1 <= Len(status_blocks)
             /\ StatusBlockRaises(status_blocks[k + 1])

ParseAdvancedCurlRaises(curl_text) == PairLoopRaises(TitleSplit(curl_text))

\* The documents.  A document is a header followed by sections; a section
\* is its title, the underline and n items (generator.py lines 496-735).
\* the texts of a list one after the other
RECURSIVE Flatten(_)
Flatten(ss) == IF ss = <<>> THEN <<>> ELSE Head(ss) \o Flatten(Tail(ss))

Anchor(title) == <<title, NL, DASH40, NL>>

PathItem(j) ==
    <<BULLET, SP, "id", ToString(j), SP, "(", "REQUIRED", ")", NL,
      IND, "Description:", SP, "path-desc", NL, NL>>
QueryItem(j) ==
    <<BULLET, SP, "q", ToString(j), SP, "(", "optional", ")", NL,
      IND, "Type:", SP, "query-type", NL, NL>>
BodyItem(j) ==
    <<"Content-Type:", SP, "body-type", ToString(j), NL,
      "Field Structure:", NL, "a", ":", SP, "string", NL, NL,
      "Example JSON:", NL, "{", QUOTE, "a", QUOTE, "}", NL, NL>>
BodyIntro ==
    <<"Description:", SP, "body-desc", NL, "Required:", SP, "Yes", NL, NL>>
StatusCodeOf(j) == IF j % 2 = 1 THEN "200" ELSE "404"
StatusItem(j) ==
    <<"Status", SP, StatusCodeOf(j), ":", SP, "OK", NL, NL,
      IND, "Content-Type:", SP, "resp-type", NL,
      IND, "Example Response:", NL, IND, "{", QUOTE, "rid", QUOTE, "}",
      NL, NL>>
BasicItem(j) == <<"curl-basic", SP, "-X", NL>>
AdvancedItem(j) ==
    <<"#", SP, "With verbose", ToString(j), ":", NL, "curl-advanced", NL, NL>>

\* the same items malformed: a parameter without its parentheses or with an
\* open one, a content type or a status with a cut example, a blank command,
\* a title without a command
BadPathItem(j) ==
    <<BULLET, SP, "id", ToString(j), NL, IND, "path-text", NL, NL>>
BadQueryItem(j) ==
    <<BULLET, SP, "q", ToString(j), SP, "(", "optional", NL, NL>>
BadBodyItem(j) ==
    <<"Content-Type:", SP, "body-type", ToString(j), NL,
      "Example JSON:", NL, "{", QUOTE, "a", NL, NL>>
BadStatusItem(j) ==
    <<"Status", SP, StatusCodeOf(j), ":", NL,
      IND, "Example Response:", NL, NL>>
BadBasicItem(j) == <<IND, NL>>
BadAdvancedItem(j) == <<"#", SP, "With verbose", ToString(j), ":">>

SectionNames ==
    <<"path_parameters", "query_parameters", "request_body", "responses",
      "curl", "advanced_curl">>

TitleOf(name) ==
    CASE name = "path_parameters" -> PathTitle
      [] name = "query_parameters" -> QueryTitle
      [] name = "request_body" -> BodyTitle
      [] name = "responses" -> ResponsesTitle
      [] name = "curl" -> BasicTitle
      [] name = "advanced_curl" -> AdvancedTitle

Titles == {TitleOf(SectionNames[k]) : k \in 1..Len(SectionNames)}

\* item j of a section, well-formed or malformed
ItemOf(name, j, good) ==
    CASE name = "path_parameters" ->
            IF good THEN PathItem(j) ELSE BadPathItem(j)
      [] name = "query_parameters" ->
            IF good THEN QueryItem(j) ELSE BadQueryItem(j)
      [] name = "request_body" ->
            IF good THEN BodyItem(j) ELSE BadBodyItem(j)
      [] name = "responses" ->
            IF good THEN StatusItem(j) ELSE BadStatusItem(j)
      [] name = "curl" ->
            IF good THEN BasicItem(j) ELSE BadBasicItem(j)
      [] name = "advanced_curl" ->
            IF good THEN AdvancedItem(j) ELSE BadAdvancedItem(j)

\* items j..n of a section
RECURSIVE Items(_, _, _, _)
Items(name, j, n, good) ==
    IF j > n THEN <<>>
    ELSE ItemOf(name, j, good) \o Items(name, j + 1, n, good)

\* the text of a section with n items; a request body opens with its
\* description and its required flag
SectionBody(name, n, good) ==
    IF name = "request_body" /\ good
    THEN BodyIntro \o Items(name, 1, n, good)
    ELSE Items(name, 1, n, good)

\* a section of a document: absent (-1) or present with n >= 0 items
SectionText(name, n, good) ==
    IF n < 0 THEN <<>>
    ELSE Anchor(TitleOf(name)) \o SectionBody(name, n, good)

EndpointLine == <<"ENDPOINT:", SP, "GET", SP, "/items", NL>>
Headers ==
    {<<>>,
     EndpointLine,
     <<"ENDPOINT:", SP, "PUT", SP, "/items", SP, "{id}", NL>>,
     <<"ENDPOINT:", SP, "/items", NL>>,
     <<"ENDPOINT:", SP, "GET", NL>> \o EndpointLine,
     <<"DELETED", SP, "ENDPOINT:", SP, "GET", SP, "/items", NL>>,
     EndpointLine \o <<"Summary:", SP, "sum", NL>>,
     EndpointLine \o <<"Summary:", SP, "sum", NL,
                       "Description:", SP, "head-desc", NL, NL>>,
     EndpointLine \o <<"Summary:", SP, "sum", NL,
                       "Description:", SP, "head-desc", NL,
                       "Tags:", SP, "tag", NL, NL>>}

\* which sections a document holds: for each section -1 or its items
Layouts == [1..Len(SectionNames) -> -1..MaxItems]

RECURSIVE Sections(_, _, _, _)
Sections(layout, k, reversed, good) ==
    IF k > Len(SectionNames) THEN <<>>
    ELSE IF reversed
         THEN Sections(layout, k + 1, reversed, good)
              \o SectionText(SectionNames[k], layout[k], good)
         ELSE SectionText(SectionNames[k], layout[k], good)
              \o Sections(layout, k + 1, reversed, good)

\* a section title that no underline follows
StrayTitle == <<ResponsesTitle, NL>>

\* the layouts every header is tried with: each section absent or full
HeaderLayouts == [1..Len(SectionNames) -> {-1, MaxItems}]

\* the documents in catalog order: every header with each section absent or
\* full, the plain header with every layout; the same with the sections
\* reversed, with a stray title in front or with malformed items
Documents ==
    {h \o Sections(l, 1, FALSE, TRUE) : h \in Headers, l \in HeaderLayouts}
    \cup {EndpointLine \o Sections(l, 1, FALSE, TRUE) : l \in Layouts}
    \cup {EndpointLine \o Sections(l, 1, TRUE, TRUE) : l \in Layouts}
    \cup {EndpointLine \o StrayTitle \o Sections(l, 1, FALSE, TRUE) :
            l \in Layouts}
    \cup {EndpointLine \o Sections(l, 1, FALSE, FALSE) : l \in Layouts}

\* documents that hold the curl sections only: the basic command or none, and
\* up to two advanced examples, one of which has a command whose -d body
\* holds '# Heading' and a colon (generator.py lines 614-689)
HashCommandItem ==
    <<"#", SP, "Save response to file", ":", NL,
      "curl-advanced", SP, "-d", SP, "{", QUOTE, "title", QUOTE, ":", QUOTE,
      "#", SP, "Heading", QUOTE, ",", QUOTE, "x", QUOTE, ":", "1", "}", NL,
      NL>>

CurlDocuments ==
    {EndpointLine \o basic \o Anchor(AdvancedTitle) \o Flatten(items) :
        basic \in {<<>>, Anchor(BasicTitle) \o BasicItem(1) \o <<NL>>},
        items \in SeqsUpTo({AdvancedItem(1), AdvancedItem(2),
                            HashCommandItem}, 2)}

InitFile ==
    /\ job = "parse_file" /\ pc = "open"
    /\ content \in Documents \cup CurlDocuments /\ data = <<>> /\ spans = <<>>
    /\ IdleExtract /\ IdleFields /\ IdleParams /\ IdleResponses /\ IdleBody /\ IdleNames
    /\ IdleBatch

fileUnchanged ==
    <<job, content, extractVars, fieldVars, paramVars, responseVars, bodyVars, nameVars, batchVars>>

\* lines 18-34: the file is read and the record initialised
ReadFile ==
    /\ job = "parse_file" /\ pc = "open"
    /\ data' = InitialData
    /\ pc' = "header"
    /\ UNCHANGED <<spans, fileUnchanged>>

\* lines 36-56: endpoint, summary, description and tags
ExtractHeader ==
    /\ job = "parse_file" /\ pc = "header"
    /\ LET endpoint_match == EndpointSearch(content)
           summary_match == LabelSearch(content, "Summary:")
           desc_match == DescriptionSearch(content)
           tags_match == LabelSearch(content, "Tags:")
       IN data' = [data EXCEPT
             !.method = IF endpoint_match.k # 0
                        THEN endpoint_match.group1 ELSE @,
             !.path = IF endpoint_match.k # 0
                      THEN endpoint_match.group2 ELSE @,
             !.endpoint = IF endpoint_match.k # 0
                          THEN endpoint_match.group1 \o <<SP>>
                               \o endpoint_match.group2
                          ELSE @,
             !.summary = IF summary_match.k # 0
                         THEN Strip(summary_match.group) ELSE @,
             !.description = IF desc_match.k # 0
                             THEN Strip(desc_match.group) ELSE @,
             !.tags = IF tags_match.k # 0
                      THEN Strip(tags_match.group) ELSE @]
    /\ pc' = "path_parameters"
    /\ UNCHANGED <<spans, fileUnchanged>>

\* one `# Extract ...` block of lines 58-76: when the section is found
\* (m.k # 0) its span goes to the sub-parser and the result is stored; an
\* exception of the sub-parser leaves parse_file
ExtractSection(at, next, m, raises, parsed) ==
    /\ job = "parse_file" /\ pc = at
    /\ IF m.k = 0 THEN
          /\ pc' = next
          /\ UNCHANGED <<data, spans>>
       ELSE IF raises THEN
          /\ pc' = "raised"
          /\ spans' = SetKey(spans, at, m.group)
          /\ UNCHANGED data
       ELSE
          /\ pc' = next
          /\ spans' = SetKey(spans, at, m.group)
          /\ data' = [data EXCEPT ![at] = parsed]
    /\ UNCHANGED fileUnchanged

\* lines 58-61
ExtractPathParameters ==
    LET path_params_section == SectionSearch(content, PathTitle, PathStops)
    IN ExtractSection("path_parameters", "query_parameters",
                      path_params_section,
                      ParseParametersRaises(path_params_section.group),
                      ParseParameters(path_params_section.group))

\* lines 63-66 searching the title of lines 58-61
ExtractQueryParametersOfPath ==
    LET query_params_section == SectionSearch(content, PathTitle, PathStops)
    IN ExtractSection("query_parameters", "request_body",
                      query_params_section,
                      ParseParametersRaises(query_params_section.group),
                      ParseParameters(query_params_section.group))

\* lines 63-66
ExtractQueryParameters ==
    LET query_params_section == SectionSearch(content, QueryTitle, QueryStops)
    IN ExtractSection("query_parameters", "request_body",
                      query_params_section,
                      ParseParametersRaises(query_params_section.group),
                      ParseParameters(query_params_section.group))

\* lines 68-71
ExtractRequestBody ==
    LET request_body_section == SectionSearch(content, BodyTitle, BodyStops)
    IN ExtractSection("request_body", "responses",
                      request_body_section,
                      ParseRequestBodyRaises(request_body_section.group),
                      ParseRequestBody(request_body_section.group))

\* lines 73-76
ExtractResponses ==
    LET responses_section ==
            SectionSearch(content, ResponsesTitle, ResponsesStops)
    IN ExtractSection("responses", "curl",
                      responses_section,
                      ParseResponsesRaises(responses_section.group),
                      ParseResponses(responses_section.group))

\* lines 78-84
ExtractCurl ==
    /\ job = "parse_file" /\ pc = "curl"
    /\ LET curl_section == SectionSearch(content, BasicTitle, BasicStops)
       IN IF curl_section.k = 0 THEN UNCHANGED <<data, spans>>
          ELSE /\ spans' = SetKey(spans, "curl", curl_section.group)
               /\ data' = [data EXCEPT !.curl_examples =
                             Append(@, [title |-> <<"Basic Command">>,
                                        command |-> Strip(curl_section.group)])]
    /\ pc' = "advanced_curl"
    /\ UNCHANGED fileUnchanged

\* lines 86-89
ExtractAdvancedCurl ==
    /\ job = "parse_file" /\ pc = "advanced_curl"
    /\ LET advanced_curl_section == AdvancedSearch(content)
       IN IF advanced_curl_section.k = 0 THEN
             /\ pc' = "return"
             /\ UNCHANGED <<data, spans>>
          ELSE IF ParseAdvancedCurlRaises(advanced_curl_section.group) THEN
             /\ pc' = "raised"
             /\ spans' = SetKey(spans, "advanced_curl",
                                advanced_curl_section.group)
             /\ UNCHANGED data
          ELSE
             /\ pc' = "return"
             /\ spans' = SetKey(spans, "advanced_curl",
                                advanced_curl_section.group)
             /\ data' = [data EXCEPT !.curl_examples =
                           @ \o ParseAdvancedCurl(advanced_curl_section.group)]
    /\ UNCHANGED fileUnchanged

NextFile ==
    \/ ReadFile
    \/ ExtractHeader
    \/ ExtractPathParameters
    \/ ExtractQueryParameters
    \/ ExtractRequestBody
    \/ ExtractResponses
    \/ ExtractCurl
    \/ ExtractAdvancedCurl

SpecFile == InitFile /\ [][NextFile]_vars

\* lines 21-56 with the record started from the record of the call before
\* (`data` kept by the parser) instead of a new dict
ParsedHeaderCarried(file_text, filename) ==
    LET endpoint_match == EndpointSearch(file_text)
        summary_match == LabelSearch(file_text, "Summary:")
        desc_match == DescriptionSearch(file_text)
        tags_match == LabelSearch(file_text, "Tags:")
    IN [(IF data = <<>> THEN InitialData ELSE data) EXCEPT
          !.filename = filename,
          !.method = IF endpoint_match.k # 0
                     THEN endpoint_match.group1 ELSE @,
          !.path = IF endpoint_match.k # 0
                   THEN endpoint_match.group2 ELSE @,
          !.endpoint = IF endpoint_match.k # 0
                       THEN endpoint_match.group1 \o <<SP>>
                            \o endpoint_match.group2
                       ELSE @,
          !.summary = IF summary_match.k # 0
                      THEN Strip(summary_match.group) ELSE @,
          !.description = IF desc_match.k # 0
                          THEN Strip(desc_match.group) ELSE @,
          !.tags = IF tags_match.k # 0
                   THEN Strip(tags_match.group) ELSE @]

\* parse_file as one call (lines 16-91): the record it returns for the text
\* `file_text` of a file called `filename`, or the fact that it raises.
\* ParsedHeader is lines 21-56, ParsedSection one block of lines 58-76.
ParsedHeader(file_text, filename) ==
    LET endpoint_match == EndpointSearch(file_text)
        summary_match == LabelSearch(file_text, "Summary:")
        desc_match == DescriptionSearch(file_text)
        tags_match == LabelSearch(file_text, "Tags:")
    IN [InitialData EXCEPT
          !.filename = filename,
          !.method = IF endpoint_match.k # 0
                     THEN endpoint_match.group1 ELSE @,
          !.path = IF endpoint_match.k # 0
                   THEN endpoint_match.group2 ELSE @,
          !.endpoint = IF endpoint_match.k # 0
                       THEN endpoint_match.group1 \o <<SP>>
                            \o endpoint_match.group2
                       ELSE @,
          !.summary = IF summary_match.k # 0
                      THEN Strip(summary_match.group) ELSE @,
          !.description = IF desc_match.k # 0
                          THEN Strip(desc_match.group) ELSE @,
          !.tags = IF tags_match.k # 0
                   THEN Strip(tags_match.group) ELSE @]

ParsedSection(call, key, m, raises, parsed) ==
    IF call.raised \/ m.k = 0 THEN call
    ELSE IF raises THEN [call EXCEPT !.raised = TRUE]
    ELSE [call EXCEPT !.data[key] = parsed]

\* lines 78-84
ParsedCurl(call, m) ==
    IF call.raised \/ m.k = 0 THEN call
    ELSE [call EXCEPT !.data.curl_examples =
            Append(@, [title |-> <<"Basic Command">>,
                       command |-> Strip(m.group)])]

\* lines 86-89
ParsedAdvancedCurl(call, m) ==
    IF call.raised \/ m.k = 0 THEN call
    ELSE IF ParseAdvancedCurlRaises(m.group)
    THEN [call EXCEPT !.raised = TRUE]
    ELSE [call EXCEPT !.data.curl_examples = @ \o ParseAdvancedCurl(m.group)]

ParseFile(file_text, filename) ==
    LET path_params_section == SectionSearch(file_text, PathTitle, PathStops)
        query_params_section ==
            SectionSearch(file_text, QueryTitle, QueryStops)
        request_body_section == SectionSearch(file_text, BodyTitle, BodyStops)
        responses_section ==
            SectionSearch(file_text, ResponsesTitle, ResponsesStops)
        curl_section == SectionSearch(file_text, BasicTitle, BasicStops)
        advanced_curl_section == AdvancedSearch(file_text)
        header == [raised |-> FALSE, data |-> ParsedHeader(file_text, filename)]
        path == ParsedSection(header, "path_parameters", path_params_section,
                    ParseParametersRaises(path_params_section.group),
                    ParseParameters(path_params_section.group))
        query == ParsedSection(path, "query_parameters", query_params_section,
                    ParseParametersRaises(query_params_section.group),
                    ParseParameters(query_params_section.group))
        body == ParsedSection(query, "request_body", request_body_section,
                    ParseRequestBodyRaises(request_body_section.group),
                    ParseRequestBody(request_body_section.group))
        resp == ParsedSection(body, "responses", responses_section,
                    ParseResponsesRaises(responses_section.group),
                    ParseResponses(responses_section.group))
    IN ParsedAdvancedCurl(ParsedCurl(resp, curl_section),
                          advanced_curl_section)

-----------------------------------------------------------------------------
(* MarkdownGenerator                                                       *)

CHECK == "*check*"      \* the check mark of the Required column
BR == "<br>"
BACKTICK == "*backtick*"  \* the character that opens and closes inline code
FENCE == "*fence*"        \* three of them, the fence of a code block

\* dict.get(key, default)
Get(d, key, default) == IF key \in DOMAIN d THEN d[key] ELSE default

\* str.replace('|', '\\|')
RECURSIVE EscapePipes(_)
EscapePipes(s) ==
    IF s = <<>> THEN <<>>
    ELSE IF Head(s) = "|" THEN <<BACKSLASH, "|">> \o EscapePipes(Tail(s))
    ELSE <<Head(s)>> \o EscapePipes(Tail(s))

\* ''.join(pieces)
Concat(pieces) == Join(pieces, <<>>)

\* lines 618-634: formatted_desc after the loop over desc_lines[k..]; the
\* star and the character after it are one token each, line[2:] drops both
RECURSIVE FormatDescLines(_, _, _)
FormatDescLines(desc_lines, k, formatted_desc) ==
    IF k > Len(desc_lines) THEN formatted_desc
    ELSE LET line == Strip(desc_lines[k]) IN
        IF StartsWith(line, <<"*">>) THEN
            FormatDescLines(desc_lines, k + 1,
                Append(formatted_desc, <<BR, BULLET, SP>> \o Tail_(line, 3)))
        ELSE IF line # <<>> THEN
            FormatDescLines(desc_lines, k + 1,
                Append(formatted_desc,
                       IF formatted_desc = <<>> THEN line
                       ELSE <<BR>> \o line))
        ELSE FormatDescLines(desc_lines, k + 1, formatted_desc)

\* lines 609-640: the table row of one parameter
ParameterRow(param) ==
    LET name == Get(param, "name", <<>>)
        param_type == Get(param, "type", <<>>)
        required == IF Get(param, "required", FALSE) THEN <<CHECK>> ELSE <<>>
        given == Get(param, "description", <<"No description available">>)
        example == Get(param, "example", <<>>)
        description ==
            IF given # <<>> /\ Contains(given, <<NL>>)
            THEN Concat(FormatDescLines(Split(given, <<NL>>), 1, <<>>))
            ELSE given
    IN <<"| ", BACKTICK>> \o name \o <<BACKTICK, " | ">> \o param_type \o <<" | ">>
       \o required \o <<" | ">> \o EscapePipes(description) \o <<" | ">>
       \o EscapePipes(example) \o <<" |">>

\* lines 599-642
GenerateParametersTable(params) ==
    IF params = <<>> THEN <<>>
    ELSE Join(<<<<"| Name | Type | Required | Description | Example |">>,
                <<"|------|------|----------|-------------|---------|">>>>
              \o [k \in 1..Len(params) |-> ParameterRow(params[k])],
              <<NL>>)

\* the list of parameters as the loop would leave it if line 637 assigned
\* the escaped description to the parameter
ParametersAfterTableEscaped(params) ==
    [k \in 1..Len(params) |->
        SetKey(params[k], "description",
               EscapePipes(Get(params[k], "description",
                               <<"No description available">>)))]

\* the list of parameters as the loop of lines 608-640 leaves it: the loop
\* binds name, description and example to locals and assigns to no key
ParametersAfterTable(params) ==
    [k \in 1..Len(params) |->
        [key \in DOMAIN params[k] |-> params[k][key]]]

\* lines 508-520: the table row of one request-body field
FieldRow(field) ==
    LET name == Get(field, "name", <<>>)
        given_type == Get(field, "type", <<>>)
        field_format == Get(field, "format", <<>>)
        required == IF Get(field, "required", FALSE) THEN <<CHECK>> ELSE <<>>
        description == Get(field, "description", <<>>)
        field_type ==
            IF StartsWith(given_type, <<"array of">>)
            THEN <<BACKTICK>> \o given_type \o <<BACKTICK>>
            ELSE IF given_type = <<"unknown">> THEN <<"object">>
            ELSE given_type
    IN <<"| ", BACKTICK>> \o name \o <<BACKTICK, " | ">> \o field_type \o <<" | ">>
       \o field_format \o <<" | ">> \o required \o <<" | ">>
       \o description \o <<" |">>

\* lines 498-522
GenerateRequestBodyFieldsTable(field_list) ==
    IF field_list = <<>> THEN <<>>
    ELSE Join(<<<<"| Field | Type | Format | Required | Description |">>,
                <<"|-------|------|--------|----------|-------------|">>>>
              \o [k \in 1..Len(field_list) |-> FieldRow(field_list[k])],
              <<NL>>)

\* '\n'.join(lines)
JoinLines(lines) == Join(lines, <<NL>>)

\* lines 463-496
GenerateRequestBodySection(request_body) ==
    JoinLines(
        <<<<"### ">> \o request_body.content_type, <<>>,
          <<"| Property | Value |">>,
          <<"|----------|-------|">>,
          <<"| **Required** | ",
            IF request_body.required THEN "Yes" ELSE "No", " |">>>>
        \o (IF /\ request_body.description # <<>>
               /\ request_body.description # <<"No description available">>
            THEN <<<<"| **Description** | ">> \o request_body.description
                   \o <<" |">>>>
            ELSE <<>>)
        \o <<<<>>>>
        \o (IF request_body.fields # <<>>
            THEN <<<<"**Field Structure:**">>, <<>>,
                   GenerateRequestBodyFieldsTable(request_body.fields), <<>>>>
            ELSE <<>>)
        \o (IF request_body.example # <<>>
            THEN <<<<"**Example:**">>, <<>>,
                   <<FENCE, "json", NL>> \o request_body.example \o <<NL, FENCE>>,
                   <<>>>>
            ELSE <<>>))

\* lines 644-664
GenerateResponseSection(response) ==
    JoinLines(
        <<<<NL, "#### Status ", response.status>>>>
        \o (IF response.description # <<>> THEN <<response.description>>
            ELSE <<>>)
        \o (IF response.content_type # <<>>
            THEN <<<<"**Content-Type:** ", BACKTICK>> \o response.content_type
                   \o <<BACKTICK>>>>
            ELSE <<>>)
        \o (IF response.schema # <<>>
            THEN <<<<"**Response Schema:**">>,
                   <<FENCE, NL>> \o response.schema \o <<NL, FENCE>>>>
            ELSE <<>>)
        \o (IF response.example # <<>>
            THEN <<<<"**Example Response:**">>,
                   <<FENCE, "json", NL>> \o response.example \o <<NL, FENCE>>>>
            ELSE <<>>))

\* the lines a loop over `items` appends: the rendering of each item, then ""
RECURSIVE RequestBodyLines(_)
RequestBodyLines(items) ==
    IF items = <<>> THEN <<>>
    ELSE <<GenerateRequestBodySection(Head(items)), <<>>>>
         \o RequestBodyLines(Tail(items))

RECURSIVE ResponseLines(_)
ResponseLines(items) ==
    IF items = <<>> THEN <<>>
    ELSE <<GenerateResponseSection(Head(items)), <<>>>>
         \o ResponseLines(Tail(items))

RECURSIVE CurlExampleLines(_)
CurlExampleLines(items) ==
    IF items = <<>> THEN <<>>
    ELSE <<<<"### ">> \o Head(items).title, <<>>,
           <<FENCE, "bash", NL>> \o Head(items).command \o <<NL, FENCE>>, <<>>>>
         \o CurlExampleLines(Tail(items))

\* lines 390-461
GenerateSingleEndpointMarkdown(endpoint) ==
    JoinLines(
        <<<<"# ">> \o endpoint.endpoint, <<>>,
          <<"## Overview">>, <<>>,
          <<"| Property | Value |">>,
          <<"|----------|-------|">>,
          <<"| **Method** | ", BACKTICK>> \o endpoint.method
              \o <<BACKTICK, " |">>,
          <<"| **Path** | ", BACKTICK>> \o endpoint.path
              \o <<BACKTICK, " |">>>>
        \o (IF endpoint.tags # <<>>
            THEN <<<<"| **Tags** | ">> \o endpoint.tags \o <<" |">>>>
            ELSE <<>>)
        \o (IF /\ endpoint.summary # <<>>
               /\ endpoint.summary # <<"No summary available">>
            THEN <<<<"| **Summary** | ">> \o endpoint.summary \o <<" |">>>>
            ELSE <<>>)
        \o <<<<>>>>
        \o (IF endpoint.description # <<>>
            THEN <<<<"## Description">>, <<>>, endpoint.description, <<>>>>
            ELSE <<>>)
        \o (IF endpoint.path_parameters # <<>>
            THEN <<<<"## Path Parameters">>, <<>>,
                   GenerateParametersTable(endpoint.path_parameters), <<>>>>
            ELSE <<>>)
        \o (IF endpoint.query_parameters # <<>>
            THEN <<<<"## Query Parameters">>, <<>>,
                   GenerateParametersTable(endpoint.query_parameters), <<>>>>
            ELSE <<>>)
        \o (IF endpoint.request_body # <<>>
            THEN <<<<"## Request Body">>, <<>>>>
                 \o RequestBodyLines(endpoint.request_body)
            ELSE <<>>)
        \o (IF endpoint.responses # <<>>
            THEN <<<<"## Responses">>, <<>>>>
                 \o ResponseLines(endpoint.responses)
            ELSE <<>>)
        \o (IF endpoint.curl_examples # <<>>
            THEN <<<<"## cURL Examples">>, <<>>>>
                 \o CurlExampleLines(endpoint.curl_examples)
            ELSE <<>>))

\* the record as a call of generate_single_endpoint_markdown leaves it: the
\* two parameter lists pass through the table loop, nothing else is reached
\* by an assignment
EndpointAfterMarkdown(endpoint) ==
    [endpoint EXCEPT
        !.path_parameters = ParametersAfterTable(@),
        !.query_parameters = ParametersAfterTable(@)]

-----------------------------------------------------------------------------
(* convert_logs_to_markdown                                                *)

\* file k of the input directory is <stem>.txt and its output <stem>.md
StemOf(k) == <<"endpoint", ToString(k)>>
InputName(k) == StemOf(k) \o <<".txt">>
OutputName(k) == StemOf(k) \o <<".md">>

\* the texts the files of a batch hold: a document with every section, a
\* document with a header only, a document with table bars and a list in its
\* parameter descriptions
FullLayout == [k \in 1..Len(SectionNames) |-> 1]
FullDocument ==
    EndpointLine
    \o <<"Summary:", SP, "sum", NL, "Description:", SP, "head-desc", NL,
         "Tags:", SP, "tag", NL, NL>>
    \o Sections(FullLayout, 1, FALSE, TRUE)
BareDocument == <<"ENDPOINT:", SP, "PUT", SP, "/items", NL>>
BarDocument ==
    EndpointLine
    \o Anchor(PathTitle)
    \o <<BULLET, SP, "id", SP, "(", "required", ")", NL,
         IND, "Description:", SP, "a", "|", "b", NL,
         IND, "Example:", SP, "1", "|", "2", NL, NL>>
    \o Anchor(QueryTitle)
    \o <<BULLET, SP, "kind", SP, "(", "optional", ")", NL,
         IND, "Description:", SP, "one of", NL,
         IND, "*", SP, "first", NL,
         IND, "*", SP, "second", NL, NL>>
BatchTexts == {FullDocument, BareDocument}

\* the lists of files glob() can return: at most MaxFiles files, each with
\* one of the texts
FileLists ==
    UNION {[1..n -> BatchTexts] : n \in 0..MaxFiles}

InitBatch ==
    /\ job = "convert_logs_to_markdown" /\ pc = "start"
    /\ txt_files \in FileLists
    /\ file_index = 0 /\ processed_count = 0 /\ failed_count = 0
    /\ parser_endpoint_data = <<>>
    /\ endpoint_data = None /\ markdown_content = None
    /\ open_handles = {} /\ output_dir = <<>> /\ events = <<>>
    /\ rendered = <<>>
    /\ IdleExtract /\ IdleFields /\ IdleParams /\ IdleResponses /\ IdleBody /\ IdleNames /\ IdleFile

batchUnchanged ==
    <<job, extractVars, fieldVars, paramVars, responseVars, bodyVars, nameVars, spans, rendered,
      txt_files, parser_endpoint_data>>

Event(step) == [file |-> file_index, step |-> step]

\* the files on which a step has raised so far
Faulted == {k \in 1..file_index :
              \E e \in 1..Len(events) :
                  events[e].file = k /\ events[e].step = "raise"}

\* a step may raise while fewer than MaxFaults files have met an exception
MayRaise == Cardinality(Faulted) < MaxFaults

\* lines 681-683: no file matched
NoFiles ==
    /\ job = "convert_logs_to_markdown" /\ pc = "start"
    /\ txt_files = <<>>
    /\ pc' = "done"
    /\ UNCHANGED <<batchUnchanged, content, data, file_index, processed_count,
                   failed_count, endpoint_data, markdown_content,
                   open_handles, output_dir, events>>

\* lines 685-691: the output directory is made and the counts start at 0
StartBatch ==
    /\ job = "convert_logs_to_markdown" /\ pc = "start"
    /\ txt_files # <<>>
    /\ processed_count' = 0 /\ failed_count' = 0
    /\ pc' = "loop"
    /\ UNCHANGED <<batchUnchanged, content, data, file_index, endpoint_data,
                   markdown_content, open_handles, output_dir, events>>

\* lines 694-695: the loop takes the next file
TakeFile ==
    /\ job = "convert_logs_to_markdown" /\ pc = "loop"
    /\ file_index < Len(txt_files)
    /\ file_index' = file_index + 1
    /\ events' = Append(events, [file |-> file_index + 1, step |-> "start"])
    /\ pc' = "open_input"
    /\ UNCHANGED <<batchUnchanged, content, data, processed_count,
                   failed_count, endpoint_data, markdown_content,
                   open_handles, output_dir>>

\* line 18, open(file_path, 'r'): the file is opened or OSError is raised
OpenInput ==
    /\ job = "convert_logs_to_markdown" /\ pc = "open_input"
    /\ \E opened \in BOOLEAN :
         /\ ~opened => MayRaise
         /\ IF opened
            THEN /\ open_handles' = open_handles \cup {"input"}
                 /\ events' = Append(events, Event("open input"))
                 /\ pc' = "read_input"
            ELSE /\ events' = Append(events, Event("raise"))
                 /\ pc' = "except"
                 /\ UNCHANGED open_handles
    /\ UNCHANGED <<batchUnchanged, content, data, file_index, processed_count,
                   failed_count, endpoint_data, markdown_content, output_dir>>

\* line 19 without the with statement: the text is read and the file is
\* left open
ReadInputUnscoped ==
    /\ job = "convert_logs_to_markdown" /\ pc = "read_input"
    /\ \E decoded \in BOOLEAN :
         /\ ~decoded => MayRaise
         /\ IF decoded
            THEN /\ content' = txt_files[file_index]
                 /\ events' = Append(events, Event("read input"))
                 /\ pc' = "parse"
            ELSE /\ events' = Append(events, Event("raise"))
                 /\ pc' = "except"
                 /\ UNCHANGED content
    /\ UNCHANGED <<batchUnchanged, data, file_index, processed_count,
                   failed_count, endpoint_data, markdown_content, output_dir,
                   open_handles>>

\* line 19, file.read(): the whole text is read, or the read raises
\* (OSError, UnicodeDecodeError) and the with statement closes the file
ReadInput ==
    /\ job = "convert_logs_to_markdown" /\ pc = "read_input"
    /\ \E decoded \in BOOLEAN :
         /\ ~decoded => MayRaise
         /\ IF decoded
            THEN /\ content' = txt_files[file_index]
                 /\ events' = Append(events, Event("read input"))
                 /\ pc' = "close_input"
                 /\ UNCHANGED open_handles
            ELSE /\ open_handles' = open_handles \ {"input"}
                 /\ events' = events \o <<Event("raise"), Event("close input")>>
                 /\ pc' = "except"
                 /\ UNCHANGED content
    /\ UNCHANGED <<batchUnchanged, data, file_index, processed_count,
                   failed_count, endpoint_data, markdown_content, output_dir>>

\* line 19: the with statement ends and closes the file
CloseInput ==
    /\ job = "convert_logs_to_markdown" /\ pc = "close_input"
    /\ open_handles' = open_handles \ {"input"}
    /\ events' = Append(events, Event("close input"))
    /\ pc' = "parse"
    /\ UNCHANGED <<batchUnchanged, content, data, file_index, processed_count,
                   failed_count, endpoint_data, markdown_content, output_dir>>

\* lines 21-91 and 698: the record is assembled and bound to endpoint_data,
\* or a sub-parser raises and the local keeps its value
ParseText ==
    /\ job = "convert_logs_to_markdown" /\ pc = "parse"
    /\ LET call == ParseFile(content, InputName(file_index))
       IN IF call.raised
          THEN /\ events' = Append(events, Event("raise"))
               /\ pc' = "except"
               /\ UNCHANGED <<data, endpoint_data>>
          ELSE /\ data' = call.data
               /\ endpoint_data' = call.data
               /\ events' = Append(events,
                                [file |-> file_index, step |-> "parse",
                                 record |-> call.data])
               /\ pc' = "render"
    /\ UNCHANGED <<batchUnchanged, content, file_index, processed_count,
                   failed_count, markdown_content, open_handles, output_dir>>

\* line 701
RenderRecord ==
    /\ job = "convert_logs_to_markdown" /\ pc = "render"
    /\ markdown_content' = GenerateSingleEndpointMarkdown(endpoint_data)
    /\ endpoint_data' = EndpointAfterMarkdown(endpoint_data)
    /\ events' = Append(events, Event("render"))
    /\ pc' = "open_output"
    /\ UNCHANGED <<batchUnchanged, content, data, file_index, processed_count,
                   failed_count, open_handles, output_dir>>

\* lines 704-708, open(output_file_path, 'w'): the file is created or
\* emptied, or OSError is raised
OpenOutput ==
    /\ job = "convert_logs_to_markdown" /\ pc = "open_output"
    /\ \E opened \in BOOLEAN :
         /\ ~opened => MayRaise
         /\ IF opened
            THEN /\ output_dir' = SetKey(output_dir,
                                         OutputName(file_index), <<>>)
                 /\ open_handles' = open_handles \cup {"output"}
                 /\ events' = Append(events, Event("open output"))
                 /\ pc' = "write_output"
            ELSE /\ events' = Append(events, Event("raise"))
                 /\ pc' = "except"
                 /\ UNCHANGED <<open_handles, output_dir>>
    /\ UNCHANGED <<batchUnchanged, content, data, file_index, processed_count,
                   failed_count, endpoint_data, markdown_content>>

\* line 709, f.write(markdown_content): the text is written, or OSError is
\* raised with only a part of the text in the file (its first token here)
\* and the with statement closes it
WriteOutput ==
    /\ job = "convert_logs_to_markdown" /\ pc = "write_output"
    /\ \E written \in {1, Len(markdown_content)} :
         /\ written < Len(markdown_content) => MayRaise
         /\ output_dir' = SetKey(output_dir, OutputName(file_index),
                                 SubSeq(markdown_content, 1, written))
         /\ IF written = Len(markdown_content)
            THEN /\ events' = Append(events, Event("write output"))
                 /\ pc' = "close_output"
                 /\ UNCHANGED open_handles
            ELSE /\ open_handles' = open_handles \ {"output"}
                 /\ events' =
                        events \o <<Event("raise"), Event("close output")>>
                 /\ pc' = "except"
    /\ UNCHANGED <<batchUnchanged, content, data, file_index, processed_count,
                   failed_count, endpoint_data, markdown_content>>

\* line 708: the with statement ends and closes the file
CloseOutput ==
    /\ job = "convert_logs_to_markdown" /\ pc = "close_output"
    /\ open_handles' = open_handles \ {"output"}
    /\ events' = Append(events, Event("close output"))
    /\ pc' = "count"
    /\ UNCHANGED <<batchUnchanged, content, data, file_index, processed_count,
                   failed_count, endpoint_data, markdown_content, output_dir>>

\* lines 711-712
CountProcessed ==
    /\ job = "convert_logs_to_markdown" /\ pc = "count"
    /\ processed_count' = processed_count + 1
    /\ events' = Append(events, Event("processed"))
    /\ pc' = "loop"
    /\ UNCHANGED <<batchUnchanged, content, data, file_index, failed_count,
                   endpoint_data, markdown_content, open_handles, output_dir>>

\* lines 714-716 without the count
CountFailedUncounted ==
    /\ job = "convert_logs_to_markdown" /\ pc = "except"
    /\ events' = Append(events, Event("failed"))
    /\ pc' = "loop"
    /\ UNCHANGED <<batchUnchanged, content, data, file_index,
                   processed_count, failed_count, endpoint_data,
                   markdown_content, open_handles, output_dir>>

\* lines 714-716: except Exception
CountFailed ==
    /\ job = "convert_logs_to_markdown" /\ pc = "except"
    /\ failed_count' = failed_count + 1
    /\ events' = Append(events, Event("failed"))
    /\ pc' = "loop"
    /\ UNCHANGED <<batchUnchanged, content, data, file_index,
                   processed_count, endpoint_data, markdown_content,
                   open_handles, output_dir>>

\* lines 718-721: the loop is over and the counts are reported
Report ==
    /\ job = "convert_logs_to_markdown" /\ pc = "loop"
    /\ file_index = Len(txt_files)
    /\ pc' = "done"
    /\ UNCHANGED <<batchUnchanged, content, data, file_index, processed_count,
                   failed_count, endpoint_data, markdown_content,
                   open_handles, output_dir, events>>

NextBatch ==
    \/ NoFiles
    \/ StartBatch
    \/ TakeFile
    \/ OpenInput
    \/ ReadInput
    \/ CloseInput
    \/ ParseText
    \/ RenderRecord
    \/ OpenOutput
    \/ WriteOutput
    \/ CloseOutput
    \/ CountProcessed
    \/ CountFailed
    \/ Report

SpecBatch == InitBatch /\ [][NextBatch]_vars

-----------------------------------------------------------------------------
(* generate_single_endpoint_markdown called again on the same record       *)

\* the texts the rendered records are assembled from: every header with
\* each section absent or full, the plain header with malformed sections,
\* and the document with table bars and a list in its descriptions
RenderDocuments ==
    {h \o Sections(l, 1, FALSE, TRUE) : h \in Headers, l \in HeaderLayouts}
    \cup {EndpointLine \o Sections(l, 1, FALSE, FALSE) : l \in HeaderLayouts}
    \cup {BarDocument}

InitRender ==
    /\ job = "generate_single_endpoint_markdown" /\ pc = "call"
    /\ content \in RenderDocuments
    /\ endpoint_data = ParseFile(content, <<"endpoint.txt">>).data
    /\ markdown_content = None /\ rendered = <<>>
    /\ data = <<>> /\ spans = <<>>
    /\ txt_files = <<>> /\ file_index = 0 /\ processed_count = 0
    /\ failed_count = 0 /\ parser_endpoint_data = <<>>
    /\ open_handles = {} /\ output_dir = <<>> /\ events = <<>>
    /\ IdleExtract /\ IdleFields /\ IdleParams /\ IdleResponses /\ IdleBody /\ IdleNames

\* lines 390-461: one call on the record
GenerateMarkdown ==
    /\ job = "generate_single_endpoint_markdown" /\ pc = "call"
    /\ Len(rendered) < MaxCalls
    /\ markdown_content' = GenerateSingleEndpointMarkdown(endpoint_data)
    /\ rendered' =
          Append(rendered, GenerateSingleEndpointMarkdown(endpoint_data))
    /\ endpoint_data' = EndpointAfterMarkdown(endpoint_data)
    /\ UNCHANGED <<job, pc, content, data, spans, extractVars, fieldVars,
                   paramVars, responseVars, bodyVars, nameVars, txt_files, file_index,
                   processed_count, failed_count, parser_endpoint_data,
                   open_handles, output_dir, events>>

NextRender == GenerateMarkdown

SpecRender == InitRender /\ [][NextRender]_vars

-----------------------------------------------------------------------------
(* Claims about _extract_complete_json                                     *)

\* A well-formed JSON text over ExtractAlphabet, "a" standing for every
\* character that is no bracket, quote or backslash: a string literal, or an
\* object or array whose brackets nest properly outside string literals and
\* whose closing bracket is its last character.  `stack` holds the open
\* brackets, `instr` and `esc` the position inside a string literal.
RECURSIVE JsonTail(_, _, _, _, _)
JsonTail(v, k, stack, instr, esc) ==
    IF k > Len(v) THEN FALSE
    ELSE LET c == v[k] IN
      IF instr THEN
        IF esc THEN c \in {QUOTE, BACKSLASH, "a"}
                    /\ JsonTail(v, k + 1, stack, TRUE, FALSE)
        ELSE IF c = BACKSLASH THEN JsonTail(v, k + 1, stack, TRUE, TRUE)
        ELSE IF c = QUOTE THEN
            IF stack = <<>> THEN k = Len(v)
            ELSE JsonTail(v, k + 1, stack, FALSE, FALSE)
        ELSE JsonTail(v, k + 1, stack, TRUE, FALSE)
      ELSE IF c = QUOTE THEN JsonTail(v, k + 1, stack, TRUE, FALSE)
      ELSE IF c \in {"{", "["} THEN
            JsonTail(v, k + 1, <<c>> \o stack, FALSE, FALSE)
      ELSE IF c \in {"}", "]"} THEN
            /\ stack # <<>>
            /\ Head(stack) = (IF c = "}" THEN "{" ELSE "[")
            /\ IF Tail(stack) = <<>> THEN k = Len(v)
               ELSE JsonTail(v, k + 1, Tail(stack), FALSE, FALSE)
      ELSE c = "a" /\ stack # <<>> /\ JsonTail(v, k + 1, stack, FALSE, FALSE)

IsJsonValue(v) == v # <<>> /\ JsonTail(v, 1, <<>>, FALSE, FALSE)

IsJsonObject(v) == IsJsonValue(v) /\ Head(v) = "{"

\* the places a..b of `text` that hold a JSON value embedded after the first
\* occurrence of the marker, no '{' lying between the marker and the value
EmbeddedValues ==
    LET m == Find(text, start_marker)
        after == m + Len(start_marker)
    IN IF m = 0 THEN {}
       ELSE {ab \in (after..Len(text)) \X (after..Len(text)) :
                /\ ab[1] <= ab[2]
                /\ IsJsonValue(SubSeq(text, ab[1], ab[2]))
                /\ ~Contains(SubSeq(text, after, ab[1] - 1), <<"{">>)}

\* C1: round trip -- when the call has returned, every JSON value embedded
\* after the marker (object, array or string) is returned as it stands.
C1_RoundTrip ==
    (job = "_extract_complete_json" /\ pc = "done") =>
        \A ab \in EmbeddedValues : extracted = SubSeq(text, ab[1], ab[2])

\* The reference of the specification: a quote toggles the inside-string
\* flag unless the character before it is an unconsumed backslash; every
\* brace outside a string changes the depth; the result is the position of
\* the first '}' that brings the depth back to zero, 0 if there is none.
RECURSIVE RefClose(_, _, _, _, _)
RefClose(s, k, esc, instr, depth) ==
    IF k > Len(s) THEN 0
    ELSE LET c == s[k]
             instr2 == IF c = QUOTE /\ ~esc THEN ~instr ELSE instr
             depth2 == IF ~instr /\ c = "{" THEN depth + 1
                       ELSE IF ~instr /\ c = "}" THEN depth - 1
                       ELSE depth
         IN IF ~instr /\ c = "}" /\ depth2 = 0 THEN k
            ELSE RefClose(s, k + 1, (~esc) /\ c = BACKSLASH, instr2, depth2)

RefExtract(s, marker) ==
    LET m == Find(s, marker)
        open == IF m = 0 THEN 0 ELSE FindFrom(s, <<"{">>, m + Len(marker))
        close == IF open = 0 THEN 0 ELSE RefClose(s, open, FALSE, FALSE, 0)
    IN IF close = 0 THEN <<>> ELSE SubSeq(s, open, close)

\* C2: when the call has returned, its result is the reference result.
C2_EqualsReference ==
    (job = "_extract_complete_json" /\ pc = "done") =>
        extracted = RefExtract(text, start_marker)

\* the scan is about to read position i (or has run out of characters)
Scanning == job = "_extract_complete_json" /\ pc = "scan"

\* the character at position k of s is escaped, the scan having started at
\* `from`: a backslash that is not itself escaped stands right before it
RECURSIVE Escaped(_, _, _)
Escaped(s, from, k) ==
    /\ k > from
    /\ s[k - 1] = BACKSLASH
    /\ ~Escaped(s, from, k - 1)

\* the quotes of s in from..(k - 1) that are not escaped
OpenQuotes(s, from, k) ==
    {q \in from..(k - 1) : s[q] = QUOTE /\ ~Escaped(s, from, q)}

\* position k of s lies inside a string literal: an odd number of unescaped
\* quotes stands before it
InsideString(s, from, k) == Cardinality(OpenQuotes(s, from, k)) % 2 = 1

\* C18: a backslash escapes exactly the character after it and the escape
\* does not chain: while the scan runs, escape_next says whether the next
\* character follows an unescaped backslash, and in_string is the parity of
\* the quotes read so far that are not escaped (so backslash-quote does not
\* toggle it and backslash-backslash-quote does).
C18_EscapeOneCharacter ==
    Scanning =>
        /\ escape_next = Escaped(text, json_start, i)
        /\ in_string = InsideString(text, json_start, i)

\* inside a string two backslashes and a quote have been read: the quote has
\* closed the string
C18_Witness ==
    /\ Scanning /\ i - 4 >= json_start
    /\ text[i - 1] = QUOTE /\ text[i - 2] = BACKSLASH
    /\ text[i - 3] = BACKSLASH /\ text[i - 4] = QUOTE
    /\ ~in_string /\ ~escape_next

\* inside a string a backslash and a quote have been read: the string is
\* still open
C18_WitnessEscapedQuote ==
    /\ Scanning /\ i - 3 >= json_start
    /\ text[i - 1] = QUOTE /\ text[i - 2] = BACKSLASH /\ text[i - 3] = QUOTE
    /\ in_string

\* the braces of s in from..(k - 1) that lie outside the string literals
BracesOutside(s, from, k, brace) ==
    {b \in from..(k - 1) : s[b] = brace /\ ~InsideString(s, from, b)}

\* C19: while the scan runs the depth is the number of '{' minus the number
\* of '}' read so far outside the string literals, a brace that follows a
\* backslash counting like any other; a backslash only keeps the quote after
\* it from toggling the inside-string flag.
C19_BracesOutsideStrings ==
    Scanning =>
        brace_count = Cardinality(BracesOutside(text, json_start, i, "{"))
                      - Cardinality(BracesOutside(text, json_start, i, "}"))

-----------------------------------------------------------------------------
(* Claims about _parse_parameters                                          *)

SourceParamLines == Split(params_text, <<NL>>)

IsBulletLine(line) == StartsWith(line, <<BULLET, SP>>)

\* a line that continues a field: it has text, is no label line and holds
\* no bullet
IsContinuationLine(line) ==
    /\ Strip(line) # <<>>
    /\ LabelOf(Strip(line)) = "None"
    /\ ~Contains(line, <<BULLET>>)

\* one bullet block whose Description: field spans three physical lines:
\* the label line and two continuation lines
ThreeLineDescription ==
    /\ Len(SourceParamLines) = 4
    /\ IsBulletLine(SourceParamLines[1])
    /\ StartsWith(SourceParamLines[2], <<IND, "Description:", SP>>)
    /\ Len(SourceParamLines[2]) > 3
    /\ IsContinuationLine(SourceParamLines[3])
    /\ IsContinuationLine(SourceParamLines[4])

\* C5: such a block yields one Parameter whose description is the text of
\* the three lines (what follows the label, and the two continuation lines
\* without their indentation) joined by newlines, nothing altered or removed.
C5_MultiLineDescription ==
    (job = "_parse_parameters" /\ pc = "done" /\ ThreeLineDescription) =>
        /\ Len(parameters) = 1
        /\ "description" \in DOMAIN parameters[1]
        /\ parameters[1].description =
              Join(<<Tail_(SourceParamLines[2], 4),
                     Strip(SourceParamLines[3]),
                     Strip(SourceParamLines[4])>>, <<NL>>)

\* C9: no two Parameters of the returned list have the same name.
C9_ParameterNamesUnique ==
    (job = "_parse_parameters" /\ pc = "done") =>
        \A a, b \in 1..Len(parameters) :
            a # b => parameters[a].name # parameters[b].name

\* the lines of the text that open a bullet block, in order
BulletLines ==
    LET ls == SourceParamLines
    IN SelectSeq(ls, IsBulletLine)

\* a first line of the form '<bullet> name (REQUIRED)' or
\* '<bullet> name (optional)'
IsNameRequiredLine(line) ==
    /\ Len(line) = 7
    /\ IsBulletLine(line)
    /\ line[3] \notin Whitespace \cup {"(", ")", BULLET}
    /\ line[4] = SP /\ line[5] = "("
    /\ line[6] \in {"REQUIRED", "optional"}
    /\ line[7] = ")"

\* the section of the scenario
ScenarioParamText ==
    Join(<<<<BULLET, SP, "id", SP, "(", "REQUIRED", ")">>,
           <<IND, "Description:", SP, "Unique identifier">>,
           <<IND, "Type:", SP, "string">>,
           <<IND, "Example:", SP, "123">>>>, <<NL>>)

\* C12: in a section that opens with a bullet line every bullet line gives
\* one Parameter, in order; a first line 'name (REQUIRED|optional)' sets name
\* to the text before the parenthesis and required to true exactly when the
\* token is REQUIRED; the section of the scenario gives exactly the one
\* Parameter of the scenario.
C12_FirstLine ==
    (job = "_parse_parameters" /\ pc = "done") =>
        /\ (SourceParamLines # <<>> /\ IsBulletLine(SourceParamLines[1])) =>
              LET heads == BulletLines
              IN /\ Len(parameters) = Len(heads)
                 /\ \A k \in 1..Len(heads) :
                       IsNameRequiredLine(heads[k]) =>
                           /\ parameters[k].name = <<heads[k][3]>>
                           /\ parameters[k].required
                                = (heads[k][6] = "REQUIRED")
        /\ params_text = ScenarioParamText =>
              parameters = <<[name |-> <<"id">>, required |-> TRUE,
                              description |-> <<"Unique identifier">>,
                              type |-> <<"string">>,
                              example |-> <<"123">>]>>

\* the section of the scenario has been parsed
C12_Witness ==
    /\ job = "_parse_parameters" /\ pc = "done"
    /\ params_text = ScenarioParamText
    /\ Len(parameters) = 1 /\ parameters[1].required

\* a section with a REQUIRED and an optional parameter has been parsed
C12_WitnessOptional ==
    /\ job = "_parse_parameters" /\ pc = "done"
    /\ Len(parameters) = 2
    /\ parameters[1].required /\ ~parameters[2].required
    /\ IsNameRequiredLine(SourceParamLines[1])

\* the text is one bullet block: a bullet line and lines without a bullet
OneBlock ==
    /\ SourceParamLines # <<>>
    /\ IsBulletLine(SourceParamLines[1])
    /\ \A k \in 2..Len(SourceParamLines) :
          ~Contains(SourceParamLines[k], <<BULLET>>)

ParamLabels == {"Description:", "Type:", "Example:"}

\* the label that opens the line, "" for a line that opens with none
OpeningLabel(line) ==
    LET stripped == Strip(line)
    IN IF stripped # <<>> /\ stripped[1] \in ParamLabels
       THEN stripped[1] ELSE ""

\* the lines that continue the label line k: the lines after it up to the
\* next label line, the empty ones left out, each without its indentation
RECURSIVE ContinuationLines(_, _)
ContinuationLines(lines, k) ==
    IF k > Len(lines) \/ OpeningLabel(lines[k]) # "" THEN <<>>
    ELSE IF Strip(lines[k]) = <<>> THEN ContinuationLines(lines, k + 1)
    ELSE <<Strip(lines[k])>> \o ContinuationLines(lines, k + 1)

\* the value of the field that the label line k opens: the text after the
\* label and the continuation lines, joined by newlines
OpenedValue(lines, k) ==
    Strip(Join(<<Strip(Tail(Strip(lines[k])))>>
               \o ContinuationLines(lines, k + 1), <<NL>>))

\* the last line of the block that opens with the label, 0 when none does
LastLabelLine(lines, label) ==
    LET at == {k \in 2..Len(lines) : OpeningLabel(lines[k]) = label}
    IN IF at = {} THEN 0 ELSE CHOOSE k \in at : \A j \in at : j <= k

\* C20: for one bullet block, each of description, type and example that a
\* label line opens ends as the text after its label followed by its
\* continuation lines, newline-joined (of two label lines of one field the
\* later one); a field that no label line opens is not set; lines before the
\* first label line are dropped.
C20_FieldStateMachine ==
    (job = "_parse_parameters" /\ pc = "done" /\ OneBlock) =>
        /\ Len(parameters) = 1
        /\ \A field \in {"description", "type", "example"} :
              LET k == LastLabelLine(SourceParamLines, LabelToken(field))
              IN IF k = 0 THEN field \notin DOMAIN parameters[1]
                 ELSE /\ field \in DOMAIN parameters[1]
                      /\ parameters[1][field]
                           = OpenedValue(SourceParamLines, k)

-----------------------------------------------------------------------------
(* Claims about _parse_responses                                           *)

\* C10: no two entries of the returned list have the same status code.
C10_StatusCodesUnique ==
    (job = "_parse_responses" /\ pc = "done") =>
        \A a, b \in 1..Len(responses) :
            a # b => responses[a].status # responses[b].status

SourceResponseLines == Split(responses_text, <<NL>>)

\* a line that opens a status block: 'Status <code>:' and the rest
IsStatusLine(line) ==
    /\ Len(line) >= 4
    /\ line[1] = "Status" /\ line[2] = SP
    /\ line[3] \in StatusCodes /\ line[4] = ":"

\* the numbers of the lines that open a status block, in order
RECURSIVE StatusLineNumbers(_, _)
StatusLineNumbers(lines, k) ==
    IF k > Len(lines) THEN <<>>
    ELSE IF IsStatusLine(lines[k])
         THEN <<k>> \o StatusLineNumbers(lines, k + 1)
         ELSE StatusLineNumbers(lines, k + 1)

\* the lines of the block that the j-th status line opens hold the phrase
SaysNoResponseBody(lines, numbers, j) ==
    LET last == IF j < Len(numbers) THEN numbers[j + 1] - 1 ELSE Len(lines)
    IN \E k \in numbers[j]..last :
          \E p \in 1..Len(lines[k]) : lines[k][p] = "No response body"

-----------------------------------------------------------------------------
(* Claims about parse_file                                                 *)

Returned == job = "parse_file" /\ pc = "return"

\* the place of a section title in the catalog
TitleRank(t) ==
    CHOOSE k \in 1..Len(SectionNames) : TitleOf(SectionNames[k]) = t

TitlePositions(s) == {k \in 1..Len(s) : s[k] \in Titles}

\* a document made of anchored sections in catalog order: every title is
\* underlined and the titles follow the catalog
InCatalogOrder(s) ==
    /\ \A k \in TitlePositions(s) :
          k + 2 <= Len(s) /\ s[k + 1] = NL /\ s[k + 2] = DASH40
    /\ \A j, k \in TitlePositions(s) :
          j < k => TitleRank(s[j]) < TitleRank(s[k])

\* C3: in a document whose sections stand in catalog order, the span handed
\* to a section parser ends at the next anchor of the document or at its end:
\* no span holds the title of a section.
C3_SectionSpans ==
    (job = "parse_file" /\ InCatalogOrder(content)) =>
        \A name \in DOMAIN spans :
            \A t \in Titles : ~Contains(spans[name], <<t>>)

\* the title of a section occurs nowhere in the document
AnchorAbsent(name) == ~Contains(content, <<TitleOf(name)>>)

\* the record field a section is parsed into
FieldOf(name) ==
    IF name \in {"curl", "advanced_curl"} THEN "curl_examples" ELSE name

\* C6 as stated: for every document and every section whose anchor is absent
\* from it, parse_file raises nothing and the field of that section is the
\* empty list, curl_examples being the field of both curl sections.
C6_AbsentAnchorEmptyField ==
    job = "parse_file" =>
        /\ pc # "raised"
        /\ Returned =>
              \A k \in 1..Len(SectionNames) :
                  AnchorAbsent(SectionNames[k]) =>
                      data[FieldOf(SectionNames[k])] = <<>>

\* C6 amended: parse_file raises nothing; the field of an absent PATH
\* PARAMETERS, QUERY PARAMETERS, REQUEST BODY or RESPONSES anchor is the
\* empty list; curl_examples is the empty list when both curl anchors are
\* absent, and holds one entry at most when only the ADVANCED USAGE EXAMPLES
\* anchor is absent.
C6_AbsentSectionsEmpty ==
    job = "parse_file" =>
        /\ pc # "raised"
        /\ Returned =>
              /\ \A name \in {"path_parameters", "query_parameters",
                              "request_body", "responses"} :
                     AnchorAbsent(name) => data[name] = <<>>
              /\ (AnchorAbsent("curl") /\ AnchorAbsent("advanced_curl"))
                     => data.curl_examples = <<>>
              /\ AnchorAbsent("advanced_curl")
                     => Len(data.curl_examples) <= 1

\* a document without QUERY PARAMETERS and without BASIC CURL COMMAND has
\* been parsed, its path parameters and advanced examples being filled
C6_Witness ==
    /\ Returned
    /\ AnchorAbsent("query_parameters") /\ data.query_parameters = <<>>
    /\ AnchorAbsent("curl")
    /\ data.path_parameters # <<>> /\ data.curl_examples # <<>>

RecordFields ==
    {"filename", "endpoint", "method", "path", "summary", "description",
     "tags", "path_parameters", "query_parameters", "request_body",
     "responses", "curl_examples"}

\* the stages of parse_file, an exception being none of them
Stages ==
    {"open", "header", "path_parameters", "query_parameters", "request_body",
     "responses", "curl", "advanced_curl", "return"}

\* the title of a section stands in the document with its underline
Underlined(name) ==
    \E k \in 1..Len(content) :
        /\ content[k] = TitleOf(name)
        /\ SkipWhitespace(content, k + 1) <= Len(content)
        /\ content[SkipWhitespace(content, k + 1)] = DASH40

\* the document holds the anchor of a section followed by a well-formed item
Filled(name) ==
    Contains(content, Anchor(TitleOf(name)) \o SectionBody(name, 1, TRUE))

\* C7: the parse of any document raises nothing on its way through the
\* stages of parse_file to the return, and returns a record with every field of the record shape; a section that
\* matches nothing leaves its field empty, and every section that stands in
\* the document with a well-formed item has its field filled whatever the
\* other sections are.
C7_AssemblyTotal ==
    job = "parse_file" =>
        /\ pc \in Stages
        /\ Returned =>
              /\ DOMAIN data = RecordFields
              /\ \A k \in 1..Len(SectionNames) :
                    LET name == SectionNames[k] IN
                    /\ (~Underlined(name) /\ name \notin {"curl", "advanced_curl"})
                           => data[name] = <<>>
                    /\ Filled(name) => data[FieldOf(name)] # <<>>
              /\ (~Underlined("curl") /\ ~Underlined("advanced_curl"))
                     => data.curl_examples = <<>>
              /\ ~Contains(content, <<"Summary:">>) => data.summary = <<>>
              /\ ~Contains(content, <<"Tags:">>) => data.tags = <<>>
              /\ ~Contains(content, <<"Description:">>) => data.description = <<>>

\* a document with a malformed parameter, a title without its underline and
\* no request body has been parsed: the parameter is kept, the fields of the
\* other two are empty
C7_Witness ==
    /\ Returned
    /\ Contains(content, BadPathItem(1)) /\ data.path_parameters # <<>>
    /\ Contains(content, BadAdvancedItem(1))
    /\ AnchorAbsent("request_body") /\ data.request_body = <<>>
    /\ data.method # <<>>

\* a stray title: the anchor of RESPONSES without its underline, alone
C7_WitnessStray ==
    /\ Returned
    /\ ~AnchorAbsent("responses") /\ ~Underlined("responses")
    /\ data.responses = <<>>

\* the text that follows 'ENDPOINT: ' in a line that holds
\* 'ENDPOINT: <METHOD> <path>', <<>> for any other line
HeaderTextOf(line) ==
    LET at == {p \in 1..(Len(line) - 4) :
                  /\ line[p] = "ENDPOINT:" /\ line[p + 1] = SP
                  /\ line[p + 2] \in WordTokens /\ line[p + 3] = SP}
    IN IF at = {} THEN <<>> ELSE Tail_(line, Min(at) + 2)

\* the header text of the first line that holds one, <<>> when no line does
FirstHeaderText(lines) ==
    LET matching == {k \in 1..Len(lines) : HeaderTextOf(lines[k]) # <<>>}
    IN IF matching = {} THEN <<>> ELSE HeaderTextOf(lines[Min(matching)])

\* C8: when the document has a line 'ENDPOINT: <METHOD> <path>', method and
\* path are both non-empty and method, a space and path give back the text
\* of the first such line after 'ENDPOINT: ', which is the endpoint field;
\* when no line matches, method, path and endpoint are empty; method is
\* empty exactly when path is.
C8_HeaderReconstructs ==
    Returned =>
        LET header == FirstHeaderText(Split(content, <<NL>>))
        IN /\ (data.method = <<>>) <=> (data.path = <<>>)
           /\ IF header = <<>>
              THEN data.method = <<>> /\ data.path = <<>>
                   /\ data.endpoint = <<>>
              ELSE /\ data.method # <<>> /\ data.path # <<>>
                   /\ data.method \o <<SP>> \o data.path = header
                   /\ data.endpoint = header

\* a header whose path holds a space has been parsed
C8_Witness ==
    /\ Returned
    /\ data.method = <<"PUT">>
    /\ Contains(data.path, <<SP>>)

\* a malformed header has been parsed: a record without method and path
C8_WitnessMalformed ==
    /\ Returned
    /\ Contains(content, <<"ENDPOINT:">>)
    /\ data.method = <<>> /\ data.path = <<>> /\ data.endpoint = <<>>

\* the tokens of a text
FieldTokens(value) == {value[k] : k \in 1..Len(value)}

\* the tokens of every field of every entry of a list of responses, a status
\* code being one token
EntryTokens(entries) ==
    {entries[k].status : k \in 1..Len(entries)}
    \cup UNION {FieldTokens(entries[k][f]) :
                   k \in 1..Len(entries),
                   f \in {"description", "content_type", "schema", "example"}}

\* the document has the title of BASIC CURL COMMAND after a RESPONSES title
CurlAfterResponses ==
    LET first == Find(content, <<ResponsesTitle>>)
    IN first # 0 /\ FindFrom(content, <<BasicTitle>>, first + 1) # 0

\* the words of the curl sections of the documents
CurlTokens == {BasicTitle, AdvancedTitle, "curl-basic", "-X", "curl-advanced"}

\* C11: whenever 'BASIC CURL COMMAND:' stands after 'RESPONSES:' in the
\* document, the span handed to _parse_responses holds neither that title nor
\* any text of the curl sections, and no field of a response entry does.
C11_ResponsesStopAtCurl ==
    (job = "parse_file" /\ CurlAfterResponses) =>
        /\ "responses" \in DOMAIN spans =>
              \A k \in 1..Len(spans.responses) :
                  spans.responses[k] \notin CurlTokens
        /\ Returned => EntryTokens(data.responses) \cap CurlTokens = {}

\* a document with responses followed by a basic and an advanced curl section
\* has been parsed, both being filled
C11_Witness ==
    /\ Returned /\ CurlAfterResponses
    /\ "responses" \in DOMAIN spans /\ data.responses # <<>>
    /\ Len(data.curl_examples) >= 2

\* parse_file in steps and parse_file as one call agree
ParseFileAgrees ==
    LET call == ParseFile(content, <<"endpoint.txt">>)
    IN /\ pc = "return" => ~call.raised /\ call.data = data
       /\ pc = "raised" => call.raised

-----------------------------------------------------------------------------
(* Claims about convert_logs_to_markdown                                   *)

BatchDone == job = "convert_logs_to_markdown" /\ pc = "done"

\* the steps of file k in the order they happened
RECURSIVE StepsFrom(_, _)
StepsFrom(k, e) ==
    IF e > Len(events) THEN <<>>
    ELSE IF events[e].file = k
    THEN <<events[e].step>> \o StepsFrom(k, e + 1)
    ELSE StepsFrom(k, e + 1)

StepsOf(k) == StepsFrom(k, 1)

\* how often `step` occurs among the steps of file k
Times(k, step) ==
    Cardinality({e \in 1..Len(events) :
                    events[e].file = k /\ events[e].step = step})

\* the files in the order the loop took them
RECURSIVE TakenFrom(_)
TakenFrom(e) ==
    IF e > Len(events) THEN <<>>
    ELSE IF events[e].step = "start"
    THEN <<events[e].file>> \o TakenFrom(e + 1)
    ELSE TakenFrom(e + 1)

\* the record parse_file returned for file k (None when it returned none)
RecordOf(k) ==
    IF \E e \in 1..Len(events) :
          events[e].file = k /\ events[e].step = "parse"
    THEN events[CHOOSE e \in 1..Len(events) :
                    events[e].file = k /\ events[e].step = "parse"].record
    ELSE None

\* the files whose output holds the whole Markdown text of their record
WrittenInFull ==
    {k \in 1..Len(txt_files) :
        /\ OutputName(k) \in DOMAIN output_dir
        /\ RecordOf(k) # None
        /\ output_dir[OutputName(k)] =
             GenerateSingleEndpointMarkdown(RecordOf(k))}

ProcessedFiles == {k \in 1..Len(txt_files) : Times(k, "processed") = 1}
FailedFiles == {k \in 1..Len(txt_files) : Times(k, "failed") = 1}
RaisedFiles == {k \in 1..Len(txt_files) : Times(k, "raise") >= 1}

C14_WitnessCutOutput ==
    /\ BatchDone
    /\ \E k \in FailedFiles :
          /\ OutputName(k) \in DOMAIN output_dir
          /\ k \notin WrittenInFull

\* the steps of one iteration that meets no exception
IterationSteps ==
    <<"start", "open input", "read input", "close input", "parse", "render",
      "open output", "write output", "close output", "processed">>

IsPrefix(s, t) == Len(s) <= Len(t) /\ s = SubSeq(t, 1, Len(s))

\* the steps that may follow the n steps done when the n+1st raises: the
\* with statement closes the file it holds, then the handler counts
AfterRaise(n) ==
    <<"raise">>
    \o (IF IterationSteps[n] = "open input" THEN <<"close input">>
        ELSE IF IterationSteps[n] = "open output" THEN <<"close output">>
        ELSE <<>>)
    \o <<"failed">>

\* the steps of an iteration are those of IterationSteps in their order, up
\* to the step that raises
InOrder(steps) ==
    \/ IsPrefix(steps, IterationSteps)
    \/ \E n \in 1..Len(IterationSteps) - 1 :
          /\ IsPrefix(SubSeq(IterationSteps, 1, n), steps)
          /\ IsPrefix(SubSeq(steps, n + 1, Len(steps)), AfterRaise(n))
          /\ Len(steps) > n

Position(steps, step) ==
    IF \E n \in 1..Len(steps) : steps[n] = step
    THEN CHOOSE n \in 1..Len(steps) : steps[n] = step
    ELSE 0

\* C15: at every moment the steps taken so far on the file in hand come in
\* the order open input, read, close input, parse, render, open output,
\* write, close output, cut short only by a step that raises; a step on
\* the next file is taken only after the file before it was counted as
\* processed or failed, and no iteration starts with a file still open; the
\* input is open only while it is read and the output only while it is
\* written, never both; whenever the output of a file is open, parse_file
\* has returned the record of that file in this iteration and
\* markdown_content is its whole rendering; the file in hand has an output
\* only once open output was taken, which it never is when a step before it
\* raised, and no file has an output before its turn
C15_PhaseOrder ==
    job = "convert_logs_to_markdown" =>
        /\ file_index > 0 => InOrder(StepsOf(file_index))
        /\ Len(events) >= 2 =>
              LET e == Len(events) - 1
              IN \/ events[e + 1].file = events[e].file
                 \/ /\ events[e + 1].file = events[e].file + 1
                    /\ events[e].step \in {"processed", "failed"}
                    /\ events[e + 1].step = "start"
        /\ pc \in {"start", "loop", "open_input", "done"} => open_handles = {}
        /\ "input" \in open_handles <=> pc \in {"read_input", "close_input"}
        /\ "output" \in open_handles <=> pc \in {"write_output", "close_output"}
        /\ "output" \in open_handles =>
              /\ RecordOf(file_index) # None
              /\ endpoint_data = RecordOf(file_index)
              /\ markdown_content =
                    GenerateSingleEndpointMarkdown(RecordOf(file_index))
        /\ file_index > 0 =>
              LET steps == StepsOf(file_index)
              IN /\ OutputName(file_index) \in DOMAIN output_dir
                        <=> Position(steps, "open output") # 0
                 /\ /\ Position(steps, "raise") # 0
                    /\ Position(steps, "render") = 0
                    => Position(steps, "open output") = 0
        /\ \A k \in 1..Len(txt_files) :
              k > file_index => OutputName(k) \notin DOMAIN output_dir

\* the output of the second file is open for writing after the first file
\* raised inside parse_file: the first file has no output, and
\* markdown_content is the rendering of the second file
C15_Witness ==
    /\ job = "convert_logs_to_markdown" /\ pc = "write_output"
    /\ file_index = 2
    /\ txt_files[1] # txt_files[2]
    /\ Position(StepsOf(1), "raise") # 0
    /\ Position(StepsOf(1), "parse") = 0
    /\ OutputName(1) \notin DOMAIN output_dir
    /\ "output" \in open_handles

\* the events that hold the record parse_file returned for a file
ParseEvents == {e \in 1..Len(events) : events[e].step = "parse"}

Nameless(record) == [record EXCEPT !.filename = <<>>]

\* C17: with one parser for the whole run, whenever parse_file has returned
\* the record of a file, that record is equal, but for the file name, to the
\* record returned for every earlier file with the same text, and its file
\* name is that of the file: wherever the file stands in the list and
\* whatever files, parsed or failed, lie before it; the parser instance
\* holds nothing between the calls
C17_NoCrossDocumentState ==
    job = "convert_logs_to_markdown" =>
        /\ parser_endpoint_data = <<>>
        /\ pc = "render" =>
              LET a == CHOOSE e \in ParseEvents : events[e].file = file_index
              IN /\ events[a].record.filename = InputName(file_index)
                 /\ endpoint_data = events[a].record
                 /\ \A b \in ParseEvents :
                       txt_files[file_index] = txt_files[events[b].file]
                       => Nameless(events[a].record)
                            = Nameless(events[b].record)

\* a run has ended in which a text was parsed as the first file and again
\* after a file with another text; in between a file was parsed or failed
C17_Witness ==
    /\ BatchDone
    /\ \E a \in ParseEvents, b \in ParseEvents :
          /\ events[a].file = 1
          /\ events[b].file >= 3
          /\ txt_files[1] = txt_files[events[b].file]
          /\ txt_files[2] # txt_files[1]

\* the same with a file that failed before the text is parsed again
C17_WitnessAfterFailure ==
    /\ BatchDone
    /\ \E a \in ParseEvents, b \in ParseEvents :
          /\ events[a].file < events[b].file
          /\ txt_files[events[a].file] = txt_files[events[b].file]
          /\ \E k \in RaisedFiles :
                events[a].file < k /\ k < events[b].file

-----------------------------------------------------------------------------
(* Claims about generate_single_endpoint_markdown                          *)

\* C16: every call of generate_single_endpoint_markdown on a record
\* returns the text the first call returned, and after any number of calls
\* the record, with every list and entry in it, is the record parse_file
\* assembled
C16_RenderIdempotent ==
    job = "generate_single_endpoint_markdown" =>
        /\ \A a \in 1..Len(rendered) : rendered[a] = rendered[1]
        /\ endpoint_data = ParseFile(content, <<"endpoint.txt">>).data

\* the record with table bars and a list in its descriptions was rendered
\* twice: the text escapes the bars and breaks the list
C16_Witness ==
    /\ job = "generate_single_endpoint_markdown"
    /\ Len(rendered) >= 2
    /\ content = BarDocument
    /\ Contains(rendered[2], <<"a", BACKSLASH, "|", "b">>)
    /\ Contains(rendered[2], <<BR, BULLET, SP, "first", BR, BULLET>>)

\* a record with every section was rendered twice
C16_WitnessFull ==
    /\ job = "generate_single_endpoint_markdown"
    /\ Len(rendered) >= 2
    /\ \A name \in {"path_parameters", "query_parameters", "request_body",
                    "responses", "curl_examples"} : endpoint_data[name] # <<>>

\* the n-th smallest element of a set of numbers
RECURSIVE Nth(_, _)
Nth(S, n) == IF n = 1 THEN Min(S) ELSE Nth(S \ {Min(S)}, n - 1)

-----------------------------------------------------------------------------
(* One call of _parse_request_body on a REQUEST BODY section               *)

\* the head of the section as generator.py writes it (lines 549-551), and
\* heads that lack one of its lines
BodyIntros ==
    {<<"Description:", SP, "body-desc", NL, "Required:", SP, "Yes", NL, NL>>,
     <<"Description:", SP, "body-desc", NL, "Required:", SP, "No", NL, NL>>,
     <<"Description:", SP, "body-desc", NL, NL>>,
     <<"Required:", SP, "Yes", NL, NL>>,
     <<>>}

\* the text of one content type (generator.py lines 557-571): whole, with
\* no example, with an example that never closes, with the line alone, with
\* an example that quotes a Content-Type header, and with no value
BodyVariants ==
    {<<"Content-Type:", SP, "application/json", NL,
       "Field Structure:", NL, "a", ":", SP, "string", NL, NL,
       "Example JSON:", NL, "{", QUOTE, "a", QUOTE, "}", NL, NL>>,
     <<"Content-Type:", SP, "multipart/form-data", NL,
       "Field Structure:", NL, "f", ":", SP, "string", NL, NL,
       "Example JSON:", NL, "No example available", NL, NL>>,
     <<"Content-Type:", SP, "text/plain", NL,
       "Example JSON:", NL, "{", QUOTE, "a", NL, NL>>,
     <<"Content-Type:", SP, "application/xml", NL>>,
     <<"Content-Type:", SP, "application/json", NL,
       "Example JSON:", NL, "{", QUOTE, "Content-Type:", SP, "text/plain",
       QUOTE, "}", NL, NL>>,
     <<"Content-Type:", NL, NL>>}

BodyTexts ==
    {intro \o Flatten(vs) :
        intro \in BodyIntros, vs \in SeqsUpTo(BodyVariants, MaxVariants)}

InitRequestBody ==
    /\ job = "_parse_request_body" /\ pc = "call"
    /\ body_text \in BodyTexts /\ request_bodies = <<>>
    /\ IdleExtract /\ IdleFields /\ IdleParams /\ IdleResponses
    /\ IdleFile /\ IdleBatch /\ IdleNames

\* lines 150-203: the whole call; an exception leaves no list
ParseRequestBodyCall ==
    /\ job = "_parse_request_body" /\ pc = "call"
    /\ IF ParseRequestBodyRaises(body_text)
       THEN pc' = "raised" /\ UNCHANGED request_bodies
       ELSE pc' = "done" /\ request_bodies' = ParseRequestBody(body_text)
    /\ UNCHANGED <<job, body_text, extractVars, fieldVars, paramVars,
                   responseVars, fileVars, batchVars, nameVars>>

NextRequestBody == ParseRequestBodyCall

SpecRequestBody == InitRequestBody /\ [][NextRequestBody]_vars

\* the lines of the section, and the place of a label followed by a space
\* and a value in a line (0 when the line has none)
SourceBodyLines == Split(body_text, <<NL>>)
LabelAt(line, label) ==
    LET hits == {j \in 1..(Len(line) - 2) :
                    line[j] = label /\ line[j + 1] = SP}
    IN IF hits = {} THEN 0 ELSE Min(hits)
ValueOf(line, label) ==
    Strip(SubSeq(line, LabelAt(line, label) + 2, Len(line)))
LinesWith(label) ==
    {n \in 1..Len(SourceBodyLines) : LabelAt(SourceBodyLines[n], label) # 0}

\* the Content-Type markers of the section
ContentTypeMarkers == LinesWith("Content-Type:")

\* the description and the required flag of the section
SectionDescription ==
    IF LinesWith("Description:") = {} THEN <<>>
    ELSE ValueOf(SourceBodyLines[Min(LinesWith("Description:"))],
                 "Description:")
SectionRequired ==
    /\ LinesWith("Required:") # {}
    /\ ValueOf(SourceBodyLines[Min(LinesWith("Required:"))], "Required:")
          = <<"Yes">>

\* C22: _parse_request_body returns one variant per Content-Type marker of
\* the section, in source order, with the marker's value as content_type;
\* every variant carries the description and the required flag of the
\* section (required exactly when the Required: value is Yes); a section
\* without a marker yields the empty list.
C22_OnePerContentType ==
    (job = "_parse_request_body" /\ pc # "call") =>
        /\ pc = "done"
        /\ Len(request_bodies) = Cardinality(ContentTypeMarkers)
        /\ \A n \in 1..Len(request_bodies) :
              /\ request_bodies[n].content_type =
                    ValueOf(SourceBodyLines[Nth(ContentTypeMarkers, n)],
                            "Content-Type:")
              /\ request_bodies[n].description = SectionDescription
              /\ request_bodies[n].required = SectionRequired

\* a section with two content types, required
C22_Witness ==
    /\ job = "_parse_request_body" /\ pc = "done"
    /\ Len(request_bodies) = 2
    /\ request_bodies[1].content_type = <<"multipart/form-data">>
    /\ request_bodies[2].content_type = <<"application/json">>
    /\ request_bodies[1].required /\ request_bodies[2].required
    /\ request_bodies[1].description = <<"body-desc">>

\* a section whose head is followed by no marker
C22_WitnessNoMarker ==
    /\ job = "_parse_request_body" /\ pc = "done"
    /\ body_text # <<>> /\ ContentTypeMarkers = {}
    /\ request_bodies = <<>>

-----------------------------------------------------------------------------
(* Claims about the info of a field line                                   *)

\* the lines of the field structure that hold a colon, in source order,
\* without their indentation: the lines the code builds a Field from
ColonLines ==
    {k \in 1..Len(SourceFieldLines) :
        Contains(SourceFieldLines[k], <<":">>)}

\* the text after the first colon of a line, trimmed
InfoOf(line) == Strip(Tail_(line, Find(line, <<":">>) + 1))

\* the text of the info up to its first parenthesis, trimmed
TypeOf(info) ==
    Strip(SubSeq(info, 1, IF Contains(info, <<"(">>)
                          THEN Find(info, <<"(">>) - 1
                          ELSE Len(info)))

\* the values of the (format: <value>) parentheticals of the info
FormatValues(info) ==
    {SubSeq(info, kj[1] + 4, kj[2] - 1) :
        kj \in {p \in (1..Len(info)) \X (1..Len(info)) :
                  /\ p[1] + 4 < p[2]
                  /\ SubSeq(info, p[1], p[1] + 3) = <<"(", "format", ":", SP>>
                  /\ info[p[2]] = ")"
                  /\ \A h \in (p[1] + 4)..(p[2] - 1) : info[h] # ")"}}

\* C23: the Field of a line 'name: info' has the text of info up to the
\* first '(' as its type, is required exactly when info holds '(required)',
\* and has the value of the '(format: <value>)' parenthetical as its format,
\* empty when there is none; without parentheticals it is not required and
\* has no format.
C23_FieldInfo ==
    (job = "_parse_field_structure" /\ pc = "done") =>
        LET lines == SourceFieldLines
            colons == ColonLines
        IN
        /\ Len(fields) = Cardinality(colons)
        /\ \A n \in 1..Len(fields) :
              LET info == InfoOf(lines[Nth(colons, n)])
              IN /\ fields[n].type = TypeOf(info)
                 /\ fields[n].required =
                       Contains(info, <<"(", "required", ")">>)
                 /\ IF FormatValues(info) = {}
                    THEN fields[n].format = <<>>
                    ELSE fields[n].format \in FormatValues(info)
                 /\ ~Contains(info, <<"(">>) =>
                       ~fields[n].required /\ fields[n].format = <<>>

\* a field with a format and (required) next to one without parentheticals
C23_Witness ==
    /\ job = "_parse_field_structure" /\ pc = "done"
    /\ Len(fields) = 2
    /\ fields[1] = [name |-> <<"c">>, type |-> <<"string">>,
                    format |-> <<"uuid">>, required |-> TRUE,
                    description |-> <<>>]
    /\ fields[2] = [name |-> <<"d">>, type |-> <<"integer">>,
                    format |-> <<>>, required |-> FALSE,
                    description |-> <<>>]

-----------------------------------------------------------------------------
(* The file name of an endpoint: APIBeautifier._endpoint_to_filename in     *)
(* src/summary_markdown_convertor.py and sanitize_filename in               *)
(* src/generator.py.  A path is a sequence of characters.                   *)

\* the characters \w matches, among those of the model
WordChars == {"a", "_"}

\* the characters of r'[/{}\[\]<>:"|?*]', among those of the model
UnsafeChars == {"/", "{", "}", ":"}

PathAlphabet == {"/", "{", "}", ":", "-", ".", "_", "a"}

\* re.sub(r'[...]', '_', s) for a class of single characters
ReplaceChars(s, class) ==
    [k \in 1..Len(s) |-> IF s[k] \in class THEN "_" ELSE s[k]]

\* re.sub(r'_+', '_', s)
RECURSIVE CollapseUnderscores(_)
CollapseUnderscores(s) ==
    IF Len(s) < 2 THEN s
    ELSE IF s[1] = "_" /\ s[2] = "_" THEN CollapseUnderscores(Tail(s))
    ELSE <<s[1]>> \o CollapseUnderscores(Tail(s))

\* str.lstrip(chars), str.strip(chars)
RECURSIVE LStripChars(_, _)
LStripChars(s, chars) ==
    IF s # <<>> /\ Head(s) \in chars THEN LStripChars(Tail(s), chars) ELSE s
RECURSIVE RStripChars(_, _)
RStripChars(s, chars) ==
    IF s # <<>> /\ s[Len(s)] \in chars
    THEN RStripChars(SubSeq(s, 1, Len(s) - 1), chars) ELSE s
StripChars(s, chars) == RStripChars(LStripChars(s, chars), chars)

\* str.upper() on the method names of the model
MethodUpper(m) == IF m = "get" THEN "GET" ELSE m

\* summary_markdown_convertor.py lines 94-112
EndpointToFilename(method, endpoint) ==
    LET path1 == LStripChars(endpoint, {"/"})
        path2 == ReplaceChars(path1, {"/"})
        path3 == ReplaceChars(path2, {"{", "}"})
        path4 == ReplaceChars(path3, PathAlphabet \ WordChars)
        path5 == StripChars(CollapseUnderscores(path4), {"_"})
    IN <<method, "__">> \o path5 \o <<".txt">>

\* generator.py lines 733-741
SanitizeFilename(method, path) ==
    LET clean1 == IF path # <<>> /\ Head(path) = "/" THEN Tail(path) ELSE path
        clean2 == ReplaceChars(clean1, UnsafeChars)
        clean3 == StripChars(CollapseUnderscores(clean2), {"_"})
        clean_path == IF clean3 = <<>> THEN <<"root">> ELSE clean3
    IN <<MethodUpper(method), "__">> \o clean_path \o <<".txt">>

\* the endpoints: a method and a path that starts with a slash
Methods == {"GET", "POST", "get"}
EndpointPaths == {<<"/">> \o p : p \in SeqsUpTo(PathAlphabet, MaxPath)}

InitNames ==
    /\ job = "file names" /\ pc = "call"
    /\ \E m \in Methods : http_method = m
    /\ endpoint_path \in EndpointPaths
    /\ link_filename = <<>> /\ written_filename = <<>>
    /\ IdleExtract /\ IdleFields /\ IdleParams /\ IdleResponses /\ IdleBody
    /\ IdleFile /\ IdleBatch

\* summary_markdown_convertor.py lines 125-127: the beautifier names the
\* file it links to
CreateEndpointLink ==
    /\ job = "file names" /\ link_filename = <<>>
    /\ link_filename' = EndpointToFilename(http_method, endpoint_path)
    /\ pc' = IF written_filename # <<>> THEN "done" ELSE pc
    /\ UNCHANGED <<job, http_method, endpoint_path, written_filename,
                   extractVars, fieldVars, paramVars, responseVars, bodyVars,
                   fileVars, batchVars>>

\* generator.py lines 796-797: the generator names the file it writes
CreateEnhancedCurlFile ==
    /\ job = "file names" /\ written_filename = <<>>
    /\ written_filename' = SanitizeFilename(http_method, endpoint_path)
    /\ pc' = IF link_filename # <<>> THEN "done" ELSE pc
    /\ UNCHANGED <<job, http_method, endpoint_path, link_filename,
                   extractVars, fieldVars, paramVars, responseVars, bodyVars,
                   fileVars, batchVars>>

NextNames == CreateEndpointLink \/ CreateEnhancedCurlFile

SpecNames == InitNames /\ [][NextNames]_vars

\* both tools have named the file of the endpoint
BothNamed == job = "file names" /\ pc = "done"

\* C30: the file name the summary links to is the file name the generator
\* writes, for every method and path.
C30_FileNamesAgree == BothNamed => link_filename = written_filename

\* the same for upper-case methods and paths of letters, slashes, braces,
\* colons and underscores that hold a letter
C30_FileNamesAgreePlainPaths ==
    (/\ BothNamed
     /\ http_method = MethodUpper(http_method)
     /\ \A k \in 1..Len(endpoint_path) : endpoint_path[k] \notin {"-", "."}
     /\ \E k \in 1..Len(endpoint_path) : endpoint_path[k] = "a") =>
        link_filename = written_filename

-----------------------------------------------------------------------------
(* Claims about the lists the sub-parsers return                           *)

\* the places of the bullet markers of the section: a bullet with
\* whitespace after it
BulletMarkers ==
    {k \in 1..(Len(params_text) - 1) :
        params_text[k] = BULLET /\ params_text[k + 1] \in Whitespace}

\* the text the i-th bullet marker introduces: from behind the marker to the
\* next marker or the end of the section
BulletBlock(n) ==
    LET from == Nth(BulletMarkers, n) + 1
        to == IF n < Cardinality(BulletMarkers)
              THEN Nth(BulletMarkers, n + 1) - 1
              ELSE Len(params_text)
    IN SubSeq(params_text, from, to)

\* C21: _parse_parameters returns one Parameter per bullet marker of the
\* section, in source order: the i-th Parameter is the one built from the
\* text the i-th marker introduces, and text before the first marker gives
\* no Parameter.
C21_OnePerBullet ==
    (job = "_parse_parameters" /\ pc = "done") =>
        /\ Len(parameters) = Cardinality(BulletMarkers)
        /\ \A n \in 1..Len(parameters) :
              parameters[n] = ParseParamBlock(BulletBlock(n))

\* the same for the sections that open with a bullet marker
C21_OnePerBulletOpening ==
    (/\ job = "_parse_parameters" /\ pc = "done"
     /\ params_text # <<>> /\ 1 \in BulletMarkers) =>
        /\ Len(parameters) = Cardinality(BulletMarkers)
        /\ \A n \in 1..Len(parameters) :
              parameters[n] = ParseParamBlock(BulletBlock(n))

-----------------------------------------------------------------------------
(* Claims about the entries of _parse_responses                            *)

\* the text of the block the j-th status line opens: what follows its
\* 'Status <code>:' up to the next status line
BlockText(lines, numbers, j) ==
    LET last == IF j < Len(numbers) THEN numbers[j + 1] - 1 ELSE Len(lines)
    IN Tail_(Join(SubSeq(lines, numbers[j], last), <<NL>>), 5)

\* the value of the first Content-Type line of a block, <<>> without one
BlockContentType(block) ==
    LET lines == Split(block, <<NL>>)
        with == {n \in 1..Len(lines) : LabelAt(lines[n], "Content-Type:") # 0}
    IN IF with = {} THEN <<>>
       ELSE ValueOf(lines[Min(with)], "Content-Type:")

\* the text between the first 'Response Structure:' of a block and the
\* first 'Example Response:' after it
BetweenStructureAndExample(block) ==
    LET s == Find(block, <<"Response Structure:">>)
        e == FindFrom(block, ExampleResponseMarker, s + 1)
    IN Strip(SubSeq(block, s + 1, e - 1))

\* the block holds 'Response Structure:' and, after it, 'Example Response:'
\* with no second 'Response Structure:' in between
HasStructureThenExample(block) ==
    LET s == Find(block, <<"Response Structure:">>)
        e == FindFrom(block, ExampleResponseMarker, s + 1)
    IN /\ s # 0 /\ e # 0
       /\ ~Contains(SubSeq(block, s + 1, e - 1), <<"Response Structure:">>)

\* C24: _parse_responses returns one entry per 'Status <code>:' marker, in
\* source order, with the marker's code; for a block without 'No response
\* body' the content type is the value of the block's Content-Type line, the
\* schema is the text between 'Response Structure:' and 'Example
\* Response:', and the example is the brace-balanced object that follows
\* 'Example Response:' in the block, and in every case a piece of the
\* block's own text.
C24_OnePerStatus ==
    (job = "_parse_responses" /\ pc = "done") =>
        LET lines == SourceResponseLines
            numbers == StatusLineNumbers(lines, 1)
        IN /\ Len(responses) = Len(numbers)
           /\ \A j \in 1..Len(numbers) :
                 LET block == BlockText(lines, numbers, j)
                 IN /\ responses[j].status = lines[numbers[j]][3]
                    /\ ~Contains(block, <<"No response body">>) =>
                          /\ responses[j].content_type =
                                BlockContentType(block)
                          /\ HasStructureThenExample(block) =>
                                responses[j].schema =
                                    BetweenStructureAndExample(block)
                          /\ RefExtract(block, ExampleResponseMarker) # <<>>
                                => responses[j].example =
                                     RefExtract(block, ExampleResponseMarker)
                          /\ responses[j].example # <<>> =>
                                Contains(block, responses[j].example)

\* a block with a content type, a structure and an example of its own
C24_Witness ==
    /\ job = "_parse_responses" /\ pc = "done"
    /\ Len(responses) = 1
    /\ responses[1] = [status |-> "200", description |-> <<>>,
                       content_type |-> <<"text/plain">>,
                       schema |-> <<"name", ":", SP, "string">>,
                       example |-> <<"{", QUOTE, "id", QUOTE, ":", SP, "1",
                                     "}">>]

\* a block whose example marker is followed by no object, before a block
\* that holds one
C24_WitnessNextBlock ==
    /\ job = "_parse_responses" /\ pc = "done"
    /\ Len(responses) = 2
    /\ responses[1].example = <<>> /\ responses[2].example = <<>>
    /\ Contains(BlockText(SourceResponseLines,
                          StatusLineNumbers(SourceResponseLines, 1), 1),
                ExampleResponseMarker)
    /\ Contains(BlockText(SourceResponseLines,
                          StatusLineNumbers(SourceResponseLines, 1), 2),
                <<"{", QUOTE, "id", QUOTE, ":", SP, "1", "}">>)

-----------------------------------------------------------------------------
(* Claims about the fallback for an example that cannot be extracted       *)

\* the text after the first occurrence of the marker
AfterMarker(s, marker) == Tail_(s, Find(s, marker) + Len(marker))

\* the slice of a response: the text after the marker up to the first blank
\* line followed by a capital letter, or all of it
ResponseSlice(block) ==
    LET after == AfterMarker(block, ExampleResponseMarker)
        stop == NextSectionSearch(after)
    IN Strip(IF stop # 0 THEN SubSeq(after, 1, stop - 1) ELSE after)

\* C25 (responses): when a block holds 'Example Response:' and no object
\* can be extracted, the entry is still built with its status and content
\* type, and its example is the text after the marker up to the first blank
\* line followed by a capital letter, or up to the end of the block.
C25_Fallback ==
    (job = "_parse_responses" /\ pc = "done") =>
        LET lines == SourceResponseLines
            numbers == StatusLineNumbers(lines, 1)
        IN /\ Len(responses) = Len(numbers)
           /\ \A j \in 1..Len(numbers) :
                 LET block == BlockText(lines, numbers, j)
                 IN (/\ ~Contains(block, <<"No response body">>)
                     /\ Contains(block, ExampleResponseMarker)
                     /\ ExtractCompleteJson(block, ExampleResponseMarker)
                           = <<>>) =>
                        /\ responses[j].status = lines[numbers[j]][3]
                        /\ responses[j].content_type = BlockContentType(block)
                        /\ responses[j].example = ResponseSlice(block)

\* the same for the blocks that hold the marker once, with text right
\* after it
C25_FallbackOneMarker ==
    (job = "_parse_responses" /\ pc = "done") =>
        LET lines == SourceResponseLines
            numbers == StatusLineNumbers(lines, 1)
        IN \A j \in 1..Len(numbers) :
              LET block == BlockText(lines, numbers, j)
                  after == AfterMarker(block, ExampleResponseMarker)
              IN (/\ ~Contains(block, <<"No response body">>)
                  /\ Contains(block, ExampleResponseMarker)
                  /\ ~Contains(after, ExampleResponseMarker)
                  /\ NextSectionSearch(after) # 1
                  /\ ExtractCompleteJson(block, ExampleResponseMarker)
                        = <<>>) =>
                     responses[j].example = ResponseSlice(block)

\* the places of the Content-Type markers of a request body, the first of
\* each line
BodyMarkerPlaces ==
    {k \in 1..(Len(body_text) - 2) :
        /\ body_text[k] = "Content-Type:" /\ body_text[k + 1] = SP
        /\ body_text[k + 2] # NL
        /\ \A h \in 1..(k - 1) :
              (body_text[h] = "Content-Type:" /\ body_text[h + 1] = SP
               /\ body_text[h + 2] # NL) =>
                 Contains(SubSeq(body_text, h, k), <<NL>>)}

\* the text of the n-th variant: from the end of its marker's line to the
\* next marker
VariantText(n) ==
    LET k == Nth(BodyMarkerPlaces, n)
        eol == FindFrom(body_text, <<NL>>, k)
        from == IF eol = 0 THEN Len(body_text) + 1 ELSE eol
        to == IF n < Cardinality(BodyMarkerPlaces)
              THEN Nth(BodyMarkerPlaces, n + 1) - 1
              ELSE Len(body_text)
    IN SubSeq(body_text, from, to)

\* the slice of a variant: the text after the marker up to a line that
\* starts with Content-Type:, or all of it
VariantSlice(variant) ==
    LET after == AfterMarker(variant, ExampleJsonMarker)
        stop == Find(after, <<NL, "Content-Type:">>)
    IN Strip(IF stop # 0 THEN SubSeq(after, 1, stop - 1) ELSE after)

\* C25 (request body): the call never raises, and a variant that holds
\* 'Example JSON:' with no object to extract has the text after the marker
\* up to the next Content-Type line, or the end of the variant, as example.
C25_FallbackRequestBody ==
    (job = "_parse_request_body" /\ pc # "call") =>
        /\ pc = "done"
        /\ Len(request_bodies) = Cardinality(BodyMarkerPlaces)
        /\ \A n \in 1..Len(request_bodies) :
              (/\ Contains(VariantText(n), ExampleJsonMarker)
               /\ ExtractCompleteJson(VariantText(n), ExampleJsonMarker)
                     = <<>>) =>
                  request_bodies[n].example = VariantSlice(VariantText(n))

-----------------------------------------------------------------------------
(* Claims about the curl examples of parse_file                            *)

\* the text of the BASIC CURL COMMAND section: what follows its underline up
\* to 'ADVANCED USAGE EXAMPLES:' or the end of the document
BasicPlace == Find(content, <<BasicTitle, NL, DASH40>>)
BasicText ==
    LET from == BasicPlace + 3
        stop == FindFrom(content, <<AdvancedTitle>>, from)
    IN SubSeq(content, from, IF stop = 0 THEN Len(content) ELSE stop - 1)

\* the lines of the ADVANCED USAGE EXAMPLES section: what follows its
\* underline up to the end of the document
AdvancedPlace == Find(content, <<AdvancedTitle, NL, DASH40>>)
AdvancedSectionLines ==
    IF AdvancedPlace = 0 THEN <<>>
    ELSE Split(Tail_(content, AdvancedPlace + 3), <<NL>>)

\* a line of the form '# <title>:'
IsTitleLine(line) ==
    /\ Len(line) >= 4 /\ line[1] = "#" /\ line[2] = SP
    /\ line[Len(line)] = ":"
TitleLines ==
    {n \in 1..Len(AdvancedSectionLines) :
        IsTitleLine(AdvancedSectionLines[n])}

\* the text of the lines after title line n up to the next title line
CommandAfter(n) ==
    LET later == {m \in TitleLines : m > n}
        last == IF later = {} THEN Len(AdvancedSectionLines)
                ELSE Min(later) - 1
    IN Strip(Join(SubSeq(AdvancedSectionLines, n + 1, last), <<NL>>))

CurlExamplesAsClaimed ==
    LET examples == data.curl_examples
        basic == IF BasicPlace # 0 THEN 1 ELSE 0
    IN /\ Len(examples) = basic + Cardinality(TitleLines)
       /\ basic = 1 =>
             examples[1] = [title |-> <<"Basic Command">>,
                            command |-> Strip(BasicText)]
       /\ \A j \in 1..Cardinality(TitleLines) :
             LET n == Nth(TitleLines, j)
                 line == AdvancedSectionLines[n]
             IN examples[basic + j] =
                   [title |-> Strip(SubSeq(line, 3, Len(line) - 1)),
                    command |-> CommandAfter(n)]

\* C26: the curl examples of a returned record are the basic command (when
\* its section is present) followed by one example per '# <title>:' line of
\* the advanced section, in source order, each with the text up to the next
\* such line as its command; no other text starts an example.
C26_CurlExamples == Returned => CurlExamplesAsClaimed

\* the same for the documents whose commands hold no '# '
C26_CurlExamplesPlainCommands ==
    (/\ Returned
     /\ \A n \in 1..Len(AdvancedSectionLines) :
           n \notin TitleLines =>
              ~Contains(AdvancedSectionLines[n], <<"#", SP>>)) =>
        CurlExamplesAsClaimed

-----------------------------------------------------------------------------
(* Claims about the header fields of parse_file                            *)

\* the place of the first section anchor of the document (a section title
\* and its underline), Len(content) + 1 when it has none
FirstAnchor ==
    LET places == {k \in 1..(Len(content) - 2) :
                      /\ content[k] \in Titles
                      /\ content[k + 1] = NL /\ content[k + 2] = DASH40}
    IN IF places = {} THEN Len(content) + 1 ELSE Min(places)

\* the header block: the text before the first anchor
HeaderBlock == SubSeq(content, 1, FirstAnchor - 1)

HeaderFieldsFromHeader ==
    \A f \in {"summary", "description", "tags"} :
        data[f] # <<>> => Contains(HeaderBlock, data[f])

\* C27: in every returned record, summary, description and tags hold only
\* text of the header block, the text before the first section anchor.
C27_HeaderFieldsFromHeader == Returned => HeaderFieldsFromHeader

\* the same for the documents whose header block has its own Summary:,
\* Description: and Tags: lines
C27_HeaderFieldsFullHeader ==
    (/\ Returned
     /\ \A label \in {"Summary:", "Description:", "Tags:"} :
           Contains(HeaderBlock, <<label, SP>>)) =>
        HeaderFieldsFromHeader

-----------------------------------------------------------------------------
(* Claims about the description of a response entry                        *)

\* the text that follows 'Status <code>:' on the j-th status line
MarkerLineText(lines, numbers, j) == Strip(Tail_(lines[numbers[j]], 5))

-----------------------------------------------------------------------------
(* Claims about the depth of the _extract_complete_json scan               *)

\* the scan has read the opening brace and goes on
PastOpening ==
    job = "_extract_complete_json" /\ pc = "scan" /\ i > json_start

\* the scan is over: the loop has broken or run out of characters
ScanOver ==
    /\ job = "_extract_complete_json" /\ pc \in {"after_loop", "done"}
    /\ json_start # 0

\* the scan has stopped at a closing brace
FoundClosing == json_end > json_start /\ text[json_end] = "}"

\* C29: the depth is never negative and, once the opening brace is read, at
\* least 1 as long as the scan goes on, so the scan stops where the depth
\* first is 0; after the scan the depth is 0 exactly when the scan stopped at
\* a closing brace, and then the result is the piece of the text from the
\* opening brace to that closing brace; otherwise the result is empty.
C29_DepthInvariant ==
    job = "_extract_complete_json" =>
        /\ brace_count >= 0
        /\ PastOpening => brace_count >= 1
        /\ ScanOver =>
              /\ brace_count = 0 <=> FoundClosing
              /\ brace_count = 0 => json_end = i
        /\ (ScanOver /\ pc = "done") =>
              IF brace_count = 0
              THEN /\ extracted = SubSeq(text, json_start, json_end)
                   /\ Head(extracted) = "{"
                   /\ extracted[Len(extracted)] = "}"
              ELSE extracted = <<>>

\* a nested object has been returned
C29_Witness ==
    /\ ScanOver /\ pc = "done" /\ brace_count = 0
    /\ Len(extracted) >= 4
    /\ extracted[2] = "{" /\ extracted[Len(extracted) - 1] = "}"
    /\ Len(extracted) < Len(text) - json_start + 1

\* the scan is two braces deep
C29_WitnessDeep == PastOpening /\ brace_count = 2

\* the scan ran out of characters with the object open
C29_WitnessOpen == ScanOver /\ pc = "done" /\ brace_count >= 1

====
